---- MODULE Spec2Model ----
(***************************************************************************)
(* Model of the Jig grammar generator (scripts/generate-grammars.ts, in    *)
(* its tag-based revision and its earlier marker-based revision), of the   *)
(* manifest reconciliation it performs on package.json, and of the         *)
(* line-by-line tokenization of the rules it generates.                    *)
(***************************************************************************)
EXTENDS Integers, Sequences, FiniteSets, TLC

(***************************************************************************)
(* Bounds of the model.                                                    *)
(***************************************************************************)
MaxLangs == 2
MaxPrior == 2
MaxRuns == 2

(***************************************************************************)
(* String helpers (JavaScript String.prototype.* as used by the script).   *)
(***************************************************************************)
StartsWith(s, p) ==
  /\ Len(p) <= Len(s)
  /\ SubSeq(s, 1, Len(p)) = p

EndsWith(s, p) ==
  /\ Len(p) <= Len(s)
  /\ SubSeq(s, Len(s) - Len(p) + 1, Len(s)) = p

\* position of the first occurrence of p in s, 0 when there is none
IndexOf(s, p) ==
  LET hits == {k \in 1..(Len(s) - Len(p) + 1) : SubSeq(s, k, k + Len(p) - 1) = p}
  IN IF hits = {} THEN 0 ELSE CHOOSE k \in hits : \A m \in hits : k <= m

\* s.replace(p, r) with a string pattern: only the first occurrence
ReplaceFirst(s, p, r) ==
  LET k == IndexOf(s, p)
  IN IF k = 0 THEN s
     ELSE SubSeq(s, 1, k - 1) \o r \o SubSeq(s, k + Len(p), Len(s))

\* s.replace(/c/g, r) for a one-character pattern c
RECURSIVE ReplaceAllChar(_, _, _)
ReplaceAllChar(s, c, r) ==
  IF Len(s) = 0 THEN ""
  ELSE (IF SubSeq(s, 1, 1) = c THEN r ELSE SubSeq(s, 1, 1))
         \o ReplaceAllChar(SubSeq(s, 2, Len(s)), c, r)

\* case folding performed by the (?i: ... ) group of the generated patterns
LowerChar(c) ==
  CASE c = "T" -> "t"
    [] c = "S" -> "s"
    [] c = "X" -> "x"
    [] c = "M" -> "m"
    [] c = "D" -> "d"
    [] OTHER -> c

RECURSIVE ToLower(_)
ToLower(s) ==
  IF Len(s) = 0 THEN ""
  ELSE LowerChar(SubSeq(s, 1, 1)) \o ToLower(SubSeq(s, 2, Len(s)))

\* the elements of a sequence
Range(f) == {f[k] : k \in DOMAIN f}

(***************************************************************************)
(* Constants of the script.                                                *)
(***************************************************************************)
FENCED_CODE_BLOCK_SCOPE == "embedded.jig.codeblock"
EMBEDDED_GRAMMAR_SCOPE == "source.jig.embedded.language"
EMBED_GRAMMAR_SCOPE == "meta.embedded.jig-languages"
JIG_HTML_SCOPE == "source.jig.html"
PURE_JIG_LANG == [id |-> "jig", scopeName |-> "source.jig"]

(***************************************************************************)
(* LanguageConfig records of scripts/languages.json.                       *)
(***************************************************************************)
LHtml ==
  [id |-> "jig-html", alias0 |-> "Jig HTML", extensions |-> <<".jig">>,
   hostLanguageScope |-> "text.html.basic",
   overrideAliases |-> <<>>, hasGreedyContexts |-> FALSE]
LTs ==
  [id |-> "jig-ts", alias0 |-> "Jig TypeScript", extensions |-> <<".ts.jig">>,
   hostLanguageScope |-> "source.ts",
   overrideAliases |-> <<"typescript">>, hasGreedyContexts |-> FALSE]
LTsx ==
  [id |-> "jig-tsx", alias0 |-> "Jig TSX", extensions |-> <<".tsx.jig">>,
   hostLanguageScope |-> "source.tsx",
   overrideAliases |-> <<>>, hasGreedyContexts |-> FALSE]
LMd ==
  [id |-> "jig-markdown", alias0 |-> "Jig Markdown", extensions |-> <<".md.jig">>,
   hostLanguageScope |-> "text.html.markdown",
   overrideAliases |-> <<"md">>, hasGreedyContexts |-> TRUE]
LMts ==
  [id |-> "jig-mts", alias0 |-> "Jig MTS", extensions |-> <<".mts.jig">>,
   hostLanguageScope |-> "source.ts",
   overrideAliases |-> <<"TS">>, hasGreedyContexts |-> FALSE]

LangPool == {LHtml, LTs, LMd, LMts}

\* a second language with greedy contexts
LMdx ==
  [id |-> "jig-mdx", alias0 |-> "Jig MDX", extensions |-> <<".mdx.jig">>,
   hostLanguageScope |-> "source.mdx",
   overrideAliases |-> <<>>, hasGreedyContexts |-> TRUE]

\* languages whose ids differ and whose derived names do not: an id without
\* the jig- prefix, and ids that differ in a hyphen and an underscore
LBareTs ==
  [id |-> "ts", alias0 |-> "TS", extensions |-> <<".ts">>,
   hostLanguageScope |-> "source.ts",
   overrideAliases |-> <<>>, hasGreedyContexts |-> FALSE]
LDash ==
  [id |-> "jig-t-s", alias0 |-> "Jig T-S", extensions |-> <<".t-s.jig">>,
   hostLanguageScope |-> "source.ts",
   overrideAliases |-> <<>>, hasGreedyContexts |-> FALSE]
LUnder ==
  [id |-> "jig-t_s", alias0 |-> "Jig T_S", extensions |-> <<".t_s.jig">>,
   hostLanguageScope |-> "source.ts",
   overrideAliases |-> <<>>, hasGreedyContexts |-> FALSE]

RECURSIVE SeqsUpTo(_, _)
SeqsUpTo(S, n) ==
  IF n = 0 THEN {<<>>}
  ELSE LET shorter == SeqsUpTo(S, n - 1)
       IN shorter \cup {Append(q, e) : q \in shorter, e \in S}

\* the registries: every language is listed once
Registries ==
  {r \in SeqsUpTo(LangPool, MaxLangs) : \A i, j \in DOMAIN r : r[i] = r[j] => i = j}

(***************************************************************************)
(* Naming helpers.                                                         *)
(***************************************************************************)
getShortName(lang) == ReplaceFirst(lang.id, "jig-", "")

getScopeKey(lang) == ReplaceAllChar(getShortName(lang), "-", "_")

\* tag-based revision: jig-html owns source.jig.html
getPerLanguageScopeName(lang) ==
  IF lang.id = "jig-html" THEN "source.jig.html"
  ELSE "text.jig." \o getShortName(lang)

\* marker-based revision
getPerLanguageScopeNameV2(lang) == "text.jig." \o getShortName(lang)

resolveVscodeLangId(lang) == getShortName(lang)

\* the names a (?i: ... ) alternation of a language matches, case-folded
AlternationNames(lang) ==
  {ToLower(getShortName(lang))} \cup {ToLower(a) : a \in Range(lang.overrideAliases)}

(***************************************************************************)
(* Regular-expression text helpers.                                        *)
(***************************************************************************)
RegexSpecial == {".", "*", "+", "?", "^", "$", "{", "}", "(", ")", "|", "[", "]", "\\"}

RECURSIVE escapeRegex(_)
escapeRegex(s) ==
  IF Len(s) = 0 THEN ""
  ELSE (IF SubSeq(s, 1, 1) \in RegexSpecial THEN "\\" \o SubSeq(s, 1, 1) ELSE SubSeq(s, 1, 1))
         \o escapeRegex(SubSeq(s, 2, Len(s)))

\* Array.prototype.join
RECURSIVE Join(_, _)
Join(q, sep) ==
  IF Len(q) = 0 THEN ""
  ELSE IF Len(q) = 1 THEN q[1]
  ELSE q[1] \o sep \o Join(Tail(q), sep)

buildLanguageAlternation(lang) ==
  LET names == <<getShortName(lang)>> \o lang.overrideAliases
      escaped == [k \in DOMAIN names |-> escapeRegex(names[k])]
  IN "(?i:" \o Join(escaped, "|") \o ")"

(***************************************************************************)
(* Embed tag rules and the recursive block consumer (tag-based revision).  *)
(***************************************************************************)
\* variant: every embed rule is begin/end with the block consumer
generateEmbedTagRule_AlwaysEnd(targetLang, injected) ==
  [contentName |-> "meta.embedded.block." \o getShortName(targetLang),
   begin |-> (IF injected THEN "(^|\\G)" ELSE "^")
               \o "(\\s*)(@{1,2}(!)?[a-zA-Z._]+\\s{0,2})(\\([^)]*\\))(\\s*:\\s*"
               \o buildLanguageAlternation(targetLang) \o ")\\s*$",
   beginCaptures |-> ("2" :> "support.function.jig"),
   end |-> "^\\s*(@end)\\s*$",
   endCaptures |-> ("1" :> "support.function.jig"),
   patterns |-> <<[include |-> "#jig_block_" \o getScopeKey(targetLang)],
                  [include |-> "source.jig"],
                  [include |-> targetLang.hostLanguageScope]>>]

generateEmbedTagRule(targetLang, injected) ==
  LET shortName == getShortName(targetLang)
      key == getScopeKey(targetLang)
      langAlternation == buildLanguageAlternation(targetLang)
      hasGreedy == targetLang.hasGreedyContexts = TRUE
      hostScope == targetLang.hostLanguageScope
      anchor == IF injected THEN "(^|\\G)" ELSE "^"
      capOffset == IF injected THEN 1 ELSE 0
      beginPattern ==
        anchor \o "(\\s*)(@{1,2}(!)?[a-zA-Z._]+\\s{0,2})(\\([^)]*\\))(\\s*:\\s*"
               \o langAlternation \o ")\\s*$"
      beginCaptures ==
        (ToString(2 + capOffset) :> "support.function.jig")
          @@ (ToString(4 + capOffset) :> "meta.embedded.block.javascript")
          @@ (ToString(5 + capOffset) :> "storage.type.embedded.jig")
      patterns ==
        (IF ~hasGreedy /\ ~injected
           THEN <<[include |-> "#jig_block_" \o key]>>
           ELSE <<>>)
          \o <<[include |-> "source.jig"], [include |-> hostScope]>>
  IN IF hasGreedy \/ injected
     THEN [contentName |-> "meta.embedded.block." \o shortName,
           begin |-> beginPattern,
           beginCaptures |-> beginCaptures,
           while |-> anchor \o "(?!\\" \o (IF injected THEN "2" ELSE "1") \o "@end\\s*$)",
           patterns |-> patterns]
     ELSE [contentName |-> "meta.embedded.block." \o shortName,
           begin |-> beginPattern,
           beginCaptures |-> beginCaptures,
           end |-> "^\\s*(@end)\\s*$",
           endCaptures |-> ("1" :> "support.function.jig"),
           patterns |-> patterns]

\* variant: the block consumer does not include the host grammar
generateJigBlock_NoHost(hostScope, selfRef) ==
  [begin |-> "^(\\s*)(@{1,2}(!)?[a-zA-Z._]+\\s{0,2})(\\([^)]*\\))\\s*$",
   beginCaptures |-> ("2" :> "support.function.jig") @@ ("4" :> "meta.embedded.block.javascript"),
   end |-> "^\\s*(@end[a-zA-Z]*)\\s*$",
   endCaptures |-> ("1" :> "support.function.jig"),
   patterns |-> <<[include |-> "#" \o selfRef], [include |-> "source.jig"]>>]

generateJigBlock(hostScope, selfRef) ==
  [begin |-> "^(\\s*)(@{1,2}(!)?[a-zA-Z._]+\\s{0,2})(\\([^)]*\\))\\s*$",
   beginCaptures |-> ("2" :> "support.function.jig") @@ ("4" :> "meta.embedded.block.javascript"),
   end |-> "^\\s*(@end[a-zA-Z]*)\\s*$",
   endCaptures |-> ("1" :> "support.function.jig"),
   patterns |-> <<[include |-> "#" \o selfRef],
                  [include |-> "source.jig"],
                  [include |-> hostScope]>>]

\* the six inlined Jig rules; only their order and their shape matter here
generateJigEmbedInnerPatterns ==
  [patterns |-> <<
     [comment |-> "Jig comment", begin |-> "\\{{--", end |-> "\\--}}",
      beginCaptures |-> ("0" :> "punctuation.definition.comment.begin.jig"),
      name |-> "comment.block"],
     [comment |-> "Escaped mustache", begin |-> "\\@{{", end |-> "\\}}",
      beginCaptures |-> ("0" :> "punctuation.definition.comment.begin.jig"),
      name |-> "comment.block"],
     [comment |-> "Safe mustache", begin |-> "\\{{{", end |-> "\\}}}",
      beginCaptures |-> ("0" :> "punctuation.mustache.begin"),
      name |-> "meta.embedded.block.javascript",
      patterns |-> <<[include |-> "source.ts#expression"]>>],
     [comment |-> "Mustache", begin |-> "\\{{", end |-> "\\}}",
      beginCaptures |-> ("0" :> "punctuation.mustache.begin"),
      name |-> "meta.embedded.block.javascript",
      patterns |-> <<[include |-> "source.ts#expression"]>>],
     [comment |-> "Non-seekable tag",
      match |-> "(^|\\G)(\\s*)((@{1,2})(!)?([a-zA-Z._]+))(~)?$",
      captures |-> ("3" :> "support.function.jig")],
     [comment |-> "Tag with parens",
      begin |-> "(^|\\G)(\\s*)((@{1,2})(!)?([a-zA-Z._]+)(\\s{0,2}))(\\()", end |-> "\\)",
      beginCaptures |-> ("3" :> "support.function.jig") @@ ("8" :> "punctuation.paren.open"),
      name |-> "meta.embedded.block.javascript",
      patterns |-> <<[include |-> "source.ts#expression"]>>]
  >>]

(***************************************************************************)
(* Per-language grammar (tag-based revision).                              *)
(***************************************************************************)
\* a JavaScript object built by successive assignments obj[key] = value:
\* the last assignment to a key wins
ObjectOf(assigns) ==
  [k \in {assigns[i][1] : i \in DOMAIN assigns} |->
     LET last == CHOOSE i \in DOMAIN assigns :
                   /\ assigns[i][1] = k
                   /\ \A j \in DOMAIN assigns : assigns[j][1] = k => j <= i
     IN assigns[last][2]]

\* ext.replace(/^\./, '')
StripLeadingDot(ext) == IF StartsWith(ext, ".") THEN SubSeq(ext, 2, Len(ext)) ELSE ext

\* variant: no block consumer is put in the repository
EmbedAssigns_NoBlock(targetLang) ==
  <<
    <<"embed_tag_" \o getScopeKey(targetLang), generateEmbedTagRule(targetLang, FALSE)>>,
    <<"embed_tag_" \o getScopeKey(targetLang) \o "_injected",
      generateEmbedTagRule(targetLang, TRUE)>>
  >>

\* the repository assignments made by the loop body for one target language
EmbedAssigns(targetLang) ==
  LET targetKey == getScopeKey(targetLang)
  IN <<
       <<"embed_tag_" \o targetKey, generateEmbedTagRule(targetLang, FALSE)>>,
       <<"embed_tag_" \o targetKey \o "_injected", generateEmbedTagRule(targetLang, TRUE)>>
     >>
     \o (IF ~targetLang.hasGreedyContexts
           THEN << <<"jig_block_" \o targetKey,
                     generateJigBlock(targetLang.hostLanguageScope, "jig_block_" \o targetKey)>> >>
           ELSE <<>>)

RECURSIVE AllEmbedAssigns(_)
AllEmbedAssigns(allLanguages) ==
  IF Len(allLanguages) = 0 THEN <<>>
  ELSE EmbedAssigns(Head(allLanguages)) \o AllEmbedAssigns(Tail(allLanguages))

\* variant: the loop walks the registry from its last entry to its first
EmbedIncludes_Reversed(allLanguages) ==
  [k \in DOMAIN allLanguages |->
     [include |-> "#embed_tag_" \o getScopeKey(allLanguages[Len(allLanguages) + 1 - k])]]

\* the includes pushed on topLevelPatterns and primaryInjectionPatterns by the loop
EmbedIncludes(allLanguages) ==
  [k \in DOMAIN allLanguages |-> [include |-> "#embed_tag_" \o getScopeKey(allLanguages[k])]]

\* the includes pushed on mdInjectionPatterns by the loop
InjectedEmbedIncludes(allLanguages) ==
  [k \in DOMAIN allLanguages |->
     [include |-> "#embed_tag_" \o getScopeKey(allLanguages[k]) \o "_injected"]]

\* variant: the host grammar is pushed before source.jig
TopLevelPatterns_HostFirst(lang, allLanguages) ==
  EmbedIncludes(allLanguages)
    \o (IF lang.id = "jig-html"
          THEN <<[include |-> "text.html.basic"], [include |-> "text.html.derivative"]>>
          ELSE <<[include |-> lang.hostLanguageScope]>>)
    \o <<[include |-> "source.jig"]>>

\* topLevelPatterns: embed tags, then source.jig, then the host grammar(s)
TopLevelPatterns(lang, allLanguages) ==
  EmbedIncludes(allLanguages)
    \o <<[include |-> "source.jig"]>>
    \o (IF lang.id = "jig-html"
          THEN <<[include |-> "text.html.basic"], [include |-> "text.html.derivative"]>>
          ELSE <<[include |-> lang.hostLanguageScope]>>)

\* the comment field of a per-language grammar
GrammarComment(lang) == lang.alias0 \o " Templates"

\* variant: the selector names the short alias of markdown
MD_PIERCING_SELECTOR_Alias == "L:meta.embedded.block.md - (comment.block | comment.block.jig)"

MD_PIERCING_SELECTOR == "L:meta.embedded.block.markdown - (comment.block | comment.block.jig)"

generatePerLanguageGrammar(lang, allLanguages) ==
  LET shortName == getShortName(lang)
      scopeName == getPerLanguageScopeName(lang)
      isHtml == lang.id = "jig-html"
      repository ==
        ObjectOf(<< <<"jig_embed_inner_patterns", generateJigEmbedInnerPatterns>>,
                    <<"jig_block", generateJigBlock(lang.hostLanguageScope, "jig_block")>> >>
                 \o AllEmbedAssigns(allLanguages))
      hasGreedyTarget == \E k \in DOMAIN allLanguages : allLanguages[k].hasGreedyContexts
      primaryInjectionPatterns ==
        EmbedIncludes(allLanguages) \o <<[include |-> "source.jig"]>>
      mdInjectionPatterns ==
        InjectedEmbedIncludes(allLanguages) \o <<[include |-> "#jig_embed_inner_patterns"]>>
      topLevelPatterns == TopLevelPatterns(lang, allLanguages)
      primarySelector ==
        IF isHtml
          THEN Join(<<scopeName \o " - (meta.embedded | meta.tag | comment.block.jig)",
                      "L:(" \o scopeName \o " meta.tag - (comment.block.jig | meta.embedded.block.jig))",
                      "L:(source.ts.embedded.html - (comment.block.jig | meta.embedded.block.jig))">>,
                    ", ")
          ELSE IF "injectionSelector" \in DOMAIN lang
                 THEN lang.injectionSelector
                 ELSE "L:" \o scopeName \o " - (comment.block | comment.block.jig | meta.embedded)"
      injections ==
        ObjectOf(<< <<primarySelector, [patterns |-> primaryInjectionPatterns]>> >>
                 \o (IF hasGreedyTarget
                       THEN << <<MD_PIERCING_SELECTOR, [patterns |-> mdInjectionPatterns]>> >>
                       ELSE <<>>))
  IN [name |-> "jig-" \o shortName,
      scopeName |-> scopeName,
      comment |-> GrammarComment(lang),
      fileTypes |-> [k \in DOMAIN lang.extensions |-> StripLeadingDot(lang.extensions[k])],
      injections |-> injections,
      patterns |-> topLevelPatterns,
      repository |-> repository]

(***************************************************************************)
(* Per-language grammar (marker-based revision).                           *)
(***************************************************************************)
generatePerLanguageGrammarV2(lang) ==
  LET shortName == getShortName(lang)
      scopeName == getPerLanguageScopeNameV2(lang)
  IN [name |-> "jig-" \o shortName,
      scopeName |-> scopeName,
      comment |-> GrammarComment(lang),
      fileTypes |-> [k \in DOMAIN lang.extensions |-> StripLeadingDot(lang.extensions[k])],
      patterns |-> <<[include |-> EMBED_GRAMMAR_SCOPE],
                     [include |-> "source.jig"],
                     [include |-> lang.hostLanguageScope]>>]

(***************************************************************************)
(* Fenced code block injection grammar (same in both revisions: the        *)
(* marker-based one spells the jig-html case out at the call site).        *)
(***************************************************************************)
\* the grave accent, which a TLA+ string cannot hold
Backtick == "<grave>"

\* variant: the end pattern takes any fence, whatever fence opened the block
FencedRule_AnyFenceEnds(nameAlternation, grammarScope, embeddedBlockScope) ==
  [name |-> "markup.fenced_code.block.markdown",
   begin |-> "(^|\\G)(\\s*)(" \o Backtick \o "{3,}|~{3,})\\s*(?i:(" \o nameAlternation
               \o ")((\\s+|:|,|\\{|\\?)[^" \o Backtick \o "]*)?$)",
   beginCaptures |-> ("3" :> "punctuation.definition.markdown")
                       @@ ("4" :> "fenced_code.block.language.markdown")
                       @@ ("5" :> "fenced_code.block.language.attributes.markdown"),
   end |-> "(^|\\G)(\\2|\\s{0,3})([" \o Backtick \o "~]{3,})\\s*$",
   endCaptures |-> ("3" :> "punctuation.definition.markdown"),
   patterns |-> <<[begin |-> "(^|\\G)(\\s*)(.*)",
                   while |-> "(^|\\G)(?!\\s*([" \o Backtick \o "~]{3,})\\s*$)",
                   contentName |-> embeddedBlockScope,
                   patterns |-> <<[include |-> grammarScope]>>]>>]

FencedRule(nameAlternation, grammarScope, embeddedBlockScope) ==
  [name |-> "markup.fenced_code.block.markdown",
   begin |-> "(^|\\G)(\\s*)(" \o Backtick \o "{3,}|~{3,})\\s*(?i:(" \o nameAlternation
               \o ")((\\s+|:|,|\\{|\\?)[^" \o Backtick \o "]*)?$)",
   beginCaptures |-> ("3" :> "punctuation.definition.markdown")
                       @@ ("4" :> "fenced_code.block.language.markdown")
                       @@ ("5" :> "fenced_code.block.language.attributes.markdown"),
   end |-> "(^|\\G)(\\2|\\s{0,3})(\\3)\\s*$",
   endCaptures |-> ("3" :> "punctuation.definition.markdown"),
   patterns |-> <<[begin |-> "(^|\\G)(\\s*)(.*)",
                   while |-> "(^|\\G)(?!\\s*([" \o Backtick \o "~]{3,})\\s*$)",
                   contentName |-> embeddedBlockScope,
                   patterns |-> <<[include |-> grammarScope]>>]>>]

\* variant: every rule delegates to the pure Jig grammar
FencedCalls_PureJig(langs) ==
  <<[key |-> "jig", nameAlternation |-> "jig", grammarScope |-> PURE_JIG_LANG.scopeName,
     embeddedBlockScope |-> "meta.embedded.block.jig", vscodeLangId |-> PURE_JIG_LANG.id]>>
  \o [k \in DOMAIN langs |->
        [key |-> getScopeKey(langs[k]),
         nameAlternation |-> escapeRegex(langs[k].id),
         grammarScope |-> PURE_JIG_LANG.scopeName,
         embeddedBlockScope |-> "meta.embedded.block.jig-" \o getShortName(langs[k]),
         vscodeLangId |-> langs[k].id]]

\* the arguments of the addFencedRule calls, in call order; langs is the
\* parameter languages of generateFencedCodeBlockGrammar
FencedCalls(langs) ==
  <<[key |-> "jig", nameAlternation |-> "jig", grammarScope |-> PURE_JIG_LANG.scopeName,
     embeddedBlockScope |-> "meta.embedded.block.jig", vscodeLangId |-> PURE_JIG_LANG.id]>>
  \o [k \in DOMAIN langs |->
        LET lang == langs[k]
            names == <<lang.id>> \o [a \in DOMAIN lang.overrideAliases |->
                                       "jig-" \o lang.overrideAliases[a]]
        IN [key |-> getScopeKey(lang),
            nameAlternation |-> Join([n \in DOMAIN names |-> escapeRegex(names[n])], "|"),
            grammarScope |-> getPerLanguageScopeName(lang),
            embeddedBlockScope |-> "meta.embedded.block.jig-" \o getShortName(lang),
            vscodeLangId |-> lang.id]]

generateFencedCodeBlockGrammar(langs) ==
  LET calls == FencedCalls(langs)
  IN [grammar |->
        [name |-> "Fenced Jig Code Blocks in Markdown",
         scopeName |-> FENCED_CODE_BLOCK_SCOPE,
         injectionSelector |->
           "L:text.html.markdown - meta.embedded.block.jig, L:source.mdx - meta.embedded.block.jig",
         fileTypes |-> <<>>,
         patterns |-> [k \in DOMAIN calls |-> [include |-> "#fenced_" \o calls[k].key]],
         repository |->
           ObjectOf([k \in DOMAIN calls |->
                       <<"fenced_" \o calls[k].key,
                         FencedRule(calls[k].nameAlternation, calls[k].grammarScope,
                                    calls[k].embeddedBlockScope)>>])],
      embeddedLanguages |->
        ObjectOf([k \in DOMAIN calls |-> <<calls[k].embeddedBlockScope, calls[k].vscodeLangId>>]),
      tokenTypes |->
        ObjectOf([k \in DOMAIN calls |-> <<calls[k].embeddedBlockScope, "other">>])]

(***************************************************************************)
(* Embed pattern library and jig-html injection grammar (marker-based      *)
(* revision).                                                              *)
(***************************************************************************)
MarkerBegin(lang) ==
  "\\{\\{--\\s*::\\s*" \o buildLanguageAlternation(lang) \o "\\s*::\\s*--\\}\\}"

\* a close marker that names no language
MarkerEnd_AnyLanguage(lang) ==
  "^\\s*\\{\\{--\\s*//\\s*" \o "[a-z]+" \o "\\s*--\\}\\}"

MarkerEnd(lang) ==
  "^\\s*\\{\\{--\\s*//\\s*" \o buildLanguageAlternation(lang) \o "\\s*--\\}\\}"

generateEmbedGrammar(languages) ==
  [scopeName |-> EMBED_GRAMMAR_SCOPE,
   patterns |-> [k \in DOMAIN languages |->
                   [include |-> "#embedded_" \o getScopeKey(languages[k])]],
   repository |->
     ObjectOf([k \in DOMAIN languages |->
                 <<"embedded_" \o getScopeKey(languages[k]),
                   [contentName |-> "meta.embedded.block." \o getShortName(languages[k]),
                    begin |-> MarkerBegin(languages[k]),
                    end |-> MarkerEnd(languages[k]),
                    beginCaptures |-> ("0" :> "comment.block.jig"),
                    endCaptures |-> ("0" :> "comment.block.jig"),
                    patterns |-> <<[include |-> getPerLanguageScopeNameV2(languages[k])]>>]>>])]

JIG_REPOSITORY_PATTERNS ==
  <<"#jig_line_comment", "#jig_line_escapedMustache", "#jig_line_safeMustache",
    "#jig_line_mustache",
    JIG_HTML_SCOPE \o "#comment", JIG_HTML_SCOPE \o "#escapedMustache",
    JIG_HTML_SCOPE \o "#safeMustache", JIG_HTML_SCOPE \o "#mustache",
    JIG_HTML_SCOPE \o "#nonSeekableTag", JIG_HTML_SCOPE \o "#tag">>

\* the four line-anchored wrappers; only their keys and includes matter here
buildLineAnchoredPatterns(languages) ==
  <<
    <<"jig_line_comment", [patterns |-> <<[include |-> JIG_HTML_SCOPE \o "#comment"]>>]>>,
    <<"jig_line_escapedMustache",
      [patterns |-> <<[include |-> JIG_HTML_SCOPE \o "#escapedMustache"]>>]>>,
    <<"jig_line_safeMustache", [patterns |-> <<[include |-> JIG_HTML_SCOPE \o "#safeMustache"]>>]>>,
    <<"jig_line_mustache", [patterns |-> <<[include |-> JIG_HTML_SCOPE \o "#mustache"]>>]>>
  >>

generateInjectionGrammar(languages) ==
  LET embeddedScopes ==
        [k \in DOMAIN languages |-> "meta.embedded.block." \o getShortName(languages[k])]
      exclusions == Join([k \in DOMAIN embeddedScopes |-> " - " \o embeddedScopes[k]], "")
  IN [grammar |->
        [name |-> "Jig Embedded Language Overrides",
         scopeName |-> EMBEDDED_GRAMMAR_SCOPE,
         injectionSelector |-> "L:" \o JIG_HTML_SCOPE \o exclusions,
         patterns |-> [k \in DOMAIN languages |->
                         [include |-> "#embedded_" \o getScopeKey(languages[k])]],
         repository |->
           ObjectOf([k \in DOMAIN languages |->
                       <<"embedded_" \o getScopeKey(languages[k]),
                         [begin |-> MarkerBegin(languages[k]),
                          end |-> MarkerEnd(languages[k]),
                          beginCaptures |-> ("0" :> "comment.block.jig"),
                          endCaptures |-> ("0" :> "comment.block.jig"),
                          contentName |-> embeddedScopes[k],
                          patterns |->
                            [p \in DOMAIN JIG_REPOSITORY_PATTERNS |->
                               [include |-> JIG_REPOSITORY_PATTERNS[p]]]
                            \o <<[include |-> languages[k].hostLanguageScope]>>]>>]
                    \o buildLineAnchoredPatterns(languages))],
      embeddedLanguages |->
        ObjectOf([k \in DOMAIN languages |->
                    <<embeddedScopes[k], resolveVscodeLangId(languages[k])>>]),
      tokenTypes |->
        ObjectOf([k \in DOMAIN languages |-> <<embeddedScopes[k], "other">>])]

(***************************************************************************)
(* package.json: contributes.languages and contributes.grammars.           *)
(***************************************************************************)
Has(obj, field) == field \in DOMAIN obj

pureJigLanguage ==
  [id |-> PURE_JIG_LANG.id, aliases |-> <<"Jig">>, extensions |-> <<".jig">>,
   configuration |-> "./language-configuration.json"]

GeneratedLanguageEntry(lang) ==
  [id |-> lang.id, aliases |-> <<lang.alias0, lang.id>>, extensions |-> lang.extensions,
   configuration |-> "./language-configuration.json"]

pureJigGrammar ==
  [language |-> PURE_JIG_LANG.id, scopeName |-> PURE_JIG_LANG.scopeName,
   path |-> "./syntaxes/jig.tmLanguage.json"]

FencedGrammarEntry(fencedEmbeddedLanguages, fencedTokenTypes) ==
  [scopeName |-> FENCED_CODE_BLOCK_SCOPE,
   path |-> "./syntaxes/generated/embedded.jig.tmLanguage.json",
   injectTo |-> <<"text.html.markdown", "source.mdx">>,
   embeddedLanguages |-> fencedEmbeddedLanguages,
   tokenTypes |-> fencedTokenTypes]

\* tag-based revision
MANAGED_SCOPES == {FENCED_CODE_BLOCK_SCOPE}

oldScopes == {"meta.embedded.jig-languages", "source.jig.embedded.language"}

\* variant: the filter forgets the managed scope names
IsHandCraftedGrammar_NoScopes(g, managedScopeNames, managedLanguageIds) ==
  /\ ~(Has(g, "language") /\ g.language \in managedLanguageIds)
  /\ ~(Has(g, "scopeName") /\ g.scopeName \in oldScopes)
  /\ ~(/\ Has(g, "language")
       /\ StartsWith(g.language, "jig-")
       /\ g.language \notin managedLanguageIds)

\* the filter that keeps the grammar entries the script does not manage
IsHandCraftedGrammar(g, managedScopeNames, managedLanguageIds) ==
  /\ ~(Has(g, "scopeName") /\ g.scopeName \in managedScopeNames)
  /\ ~(Has(g, "language") /\ g.language \in managedLanguageIds)
  /\ ~(Has(g, "scopeName") /\ g.scopeName \in oldScopes)
  /\ ~(/\ Has(g, "language")
       /\ StartsWith(g.language, "jig-")
       /\ g.language \notin managedLanguageIds)

updatePackageJson(packageJson, languages, fencedEmbeddedLanguages, fencedTokenTypes) ==
  LET generatedLanguages == [k \in DOMAIN languages |-> GeneratedLanguageEntry(languages[k])]
      managedScopeNames ==
        MANAGED_SCOPES \cup {PURE_JIG_LANG.scopeName}
          \cup {getPerLanguageScopeName(languages[k]) : k \in DOMAIN languages}
      managedLanguageIds == {PURE_JIG_LANG.id} \cup {languages[k].id : k \in DOMAIN languages}
      IsHandCrafted(g) == IsHandCraftedGrammar(g, managedScopeNames, managedLanguageIds)
      handCraftedGrammars == SelectSeq(packageJson.grammars, IsHandCrafted)
      embeddedLanguagesMap ==
        ObjectOf([k \in DOMAIN languages |->
                    <<"meta.embedded.block." \o getShortName(languages[k]),
                      resolveVscodeLangId(languages[k])>>])
      tokenTypesMap ==
        ObjectOf([k \in DOMAIN languages |->
                    <<"meta.embedded.block." \o getShortName(languages[k]), "other">>])
      generatedGrammars ==
        <<pureJigGrammar>>
          \o [k \in DOMAIN languages |->
                [language |-> languages[k].id,
                 scopeName |-> getPerLanguageScopeName(languages[k]),
                 path |-> "./syntaxes/generated/jig-" \o getShortName(languages[k])
                            \o ".tmLanguage.json",
                 embeddedLanguages |-> embeddedLanguagesMap,
                 tokenTypes |-> tokenTypesMap]]
          \o <<FencedGrammarEntry(fencedEmbeddedLanguages, fencedTokenTypes)>>
  IN [languages |-> <<pureJigLanguage>> \o generatedLanguages,
      grammars |-> handCraftedGrammars \o generatedGrammars]

\* marker-based revision
MANAGED_SCOPES_V2 == {EMBEDDED_GRAMMAR_SCOPE, EMBED_GRAMMAR_SCOPE, FENCED_CODE_BLOCK_SCOPE}

IsNotHtml(l) == l.id # "jig-html"

isStaleGrammar(g, managedLanguageIds) ==
  /\ Has(g, "language")
  /\ StartsWith(g.language, "jig-")
  /\ g.language # "jig-html"
  /\ g.language \notin managedLanguageIds

IsHandCraftedGrammarV2(g, managedScopeNames, managedLanguageIds) ==
  /\ ~(Has(g, "scopeName") /\ g.scopeName \in managedScopeNames)
  /\ ~(Has(g, "language") /\ g.language \in managedLanguageIds)
  /\ ~isStaleGrammar(g, managedLanguageIds)

updatePackageJsonV2(packageJson, languages, injEmbedded, injTokenTypes, fencedEmbedded, fencedTokenTypes) ==
  LET IsJigHtmlEntry(l) == Has(l, "id") /\ l.id = "jig-html"
      handCraftedLanguages == SelectSeq(packageJson.languages, IsJigHtmlEntry)
      nonHtml == SelectSeq(languages, IsNotHtml)
      generatedLanguages == [k \in DOMAIN nonHtml |-> GeneratedLanguageEntry(nonHtml[k])]
      managedScopeNames ==
        MANAGED_SCOPES_V2 \cup {PURE_JIG_LANG.scopeName}
          \cup {getPerLanguageScopeNameV2(nonHtml[k]) : k \in DOMAIN nonHtml}
      managedLanguageIds == {PURE_JIG_LANG.id} \cup {nonHtml[k].id : k \in DOMAIN nonHtml}
      IsHandCrafted(g) == IsHandCraftedGrammarV2(g, managedScopeNames, managedLanguageIds)
      handCraftedGrammars == SelectSeq(packageJson.grammars, IsHandCrafted)
      generatedGrammars ==
        <<pureJigGrammar>>
          \o [k \in DOMAIN nonHtml |->
                [language |-> nonHtml[k].id,
                 scopeName |-> getPerLanguageScopeNameV2(nonHtml[k]),
                 path |-> "./syntaxes/generated/jig-" \o getShortName(nonHtml[k])
                            \o ".tmLanguage.json"]]
          \o <<[scopeName |-> EMBED_GRAMMAR_SCOPE,
                path |-> "./syntaxes/generated/embed.tmLanguage.json"],
               [scopeName |-> EMBEDDED_GRAMMAR_SCOPE,
                path |-> "./syntaxes/generated/jig-embedded-languages.tmLanguage.json",
                injectTo |-> <<JIG_HTML_SCOPE>>,
                embeddedLanguages |-> injEmbedded,
                tokenTypes |-> injTokenTypes],
               FencedGrammarEntry(fencedEmbedded, fencedTokenTypes)>>
  IN [languages |-> handCraftedLanguages \o <<pureJigLanguage>> \o generatedLanguages,
      grammars |-> handCraftedGrammars \o generatedGrammars]

(***************************************************************************)
(* State of a generation run: the files it reads and writes, and the       *)
(* position of main().                                                     *)
(***************************************************************************)
VARIABLES
  rev,            \* which revision of the script runs: "tag" or "marker"
  regFile,        \* scripts/languages.json: [status, value]
  pkg,            \* package.json: [status, value]
  dirExists,      \* whether syntaxes/generated exists
  genDir,         \* syntaxes/generated: file name -> content
  pc,             \* position of main()
  languages,      \* main's languages
  idx,            \* index of the per-language loop of main
  generatedFiles, \* main's generatedFiles
  computed,       \* names of the artifacts main has built in memory so far
  run,            \* number of the current run
  genDir0,        \* syntaxes/generated as it was when the current run started
  pkg0,           \* package.json as it was when the current run started
  genDir1,        \* syntaxes/generated as the first run left it
  pkg1,           \* package.json as the first run left it
  generatedFiles1 \* generatedFiles of the first run

genVars ==
  <<rev, regFile, pkg, dirExists, genDir, pc, languages, idx, generatedFiles, computed,
    run, genDir0, pkg0, genDir1, pkg1, generatedFiles1>>

VARIABLES
  tokPc,          \* position of tokenizeContent: "idle", "lines" or "returned"
  tokScopeName,   \* the scopeName tokenizeContent was called with
  lines,          \* the lines of the content, content.split('\n')
  ruleStack,      \* the rule stack carried from one line to the next
  result          \* the LineTokens collected so far, one entry per line

tokVars == <<tokPc, tokScopeName, lines, ruleStack, result>>

\* no tokenizeContent call is under way
TokIdle ==
  /\ tokPc = "idle"
  /\ tokScopeName = ""
  /\ lines = <<>>
  /\ ruleStack = <<>>
  /\ result = <<>>

Revisions == {"tag", "marker"}

GrammarSuffix == ".tmLanguage.json"
FencedFileName == "embedded.jig.tmLanguage.json"
EmbedFileName == "embed.tmLanguage.json"
InjectionFileName == "jig-embedded-languages.tmLanguage.json"

\* variant: the file name carries the number of the run
GrammarFileName_Stamped(lang) ==
  "jig-" \o getShortName(lang) \o "." \o ToString(run) \o GrammarSuffix

GrammarFileName(lang) == "jig-" \o getShortName(lang) \o GrammarSuffix

\* the empty directory
NoFiles == [f \in {} |-> [scopeName |-> ""]]

\* content of a file left by an earlier generation or put there by hand
OldContent == [scopeName |-> "left.over"]

OldFileNames == {"jig-go.tmLanguage.json", "jig-ts.tmLanguage.json", "README.md"}

InitialDirs == {[f \in S |-> OldContent] : S \in {{"README.md"}, OldFileNames}}

(***************************************************************************)
(* Entries a package.json may hold before a run.                           *)
(***************************************************************************)
HandSourceJigGrammar ==
  [scopeName |-> "source.jig", path |-> "./syntaxes/jig.tmLanguage.json"]
HandHtmlGrammar ==
  [language |-> "jig-html", scopeName |-> "source.jig.html",
   path |-> "./syntaxes/jig-html.tmLanguage.json"]
HandCustomGrammar ==
  [scopeName |-> "source.custom", path |-> "./syntaxes/custom.tmLanguage.json"]
StaleGoGrammar ==
  [language |-> "jig-go", scopeName |-> "text.jig.go",
   path |-> "./syntaxes/generated/jig-go.tmLanguage.json"]
OldEmbedGrammar ==
  [scopeName |-> EMBED_GRAMMAR_SCOPE, path |-> "./syntaxes/generated/embed.tmLanguage.json"]

HandGrammars == {HandSourceJigGrammar, HandHtmlGrammar, HandCustomGrammar}

HandHtmlLanguage ==
  [id |-> "jig-html", aliases |-> <<"Jig (HTML)", "jig-html">>, extensions |-> <<".jig">>,
   configuration |-> "./html-language-configuration.json"]
StaleGoLanguage ==
  [id |-> "jig-go", aliases |-> <<"Jig Go", "jig-go">>, extensions |-> <<".go.jig">>,
   configuration |-> "./language-configuration.json"]

HandLanguages == {HandHtmlLanguage}
PriorLanguageLists == {<<>>, <<HandHtmlLanguage, StaleGoLanguage>>}

PriorGrammarOrder ==
  <<HandSourceJigGrammar, HandHtmlGrammar, HandCustomGrammar, StaleGoGrammar, OldEmbedGrammar>>

\* the entries of PriorGrammarOrder at the positions in I, in their order
Pick(I) ==
  LET F[k \in 0..Len(PriorGrammarOrder)] ==
        IF k = 0 THEN <<>>
        ELSE IF k \in I THEN Append(F[k - 1], PriorGrammarOrder[k]) ELSE F[k - 1]
  IN F[Len(PriorGrammarOrder)]

PriorGrammarLists ==
  {Pick(I) : I \in {J \in SUBSET DOMAIN PriorGrammarOrder : Cardinality(J) <= MaxPrior}}

PriorManifests ==
  {[languages |-> ls, grammars |-> gs] : ls \in PriorLanguageLists, gs \in PriorGrammarLists}

Unreadable == {"unreadable", "badjson"}

\* the state before main() runs, the registry file holding one of the
\* registries or being unusable
GenInitOf(registries) ==
  /\ rev \in Revisions
  /\ regFile \in {[status |-> "ok", value |-> r] : r \in registries}
                   \cup {[status |-> s, value |-> <<>>] : s \in Unreadable \cup {"notarray"}}
  /\ pkg \in {[status |-> "ok", value |-> m] : m \in PriorManifests}
               \cup {[status |-> s, value |-> [languages |-> <<>>, grammars |-> <<>>]] :
                       s \in Unreadable}
  /\ dirExists \in BOOLEAN
  /\ genDir \in (IF dirExists THEN InitialDirs ELSE {NoFiles})
  /\ pc = "start"
  /\ languages = <<>>
  /\ idx = 0
  /\ generatedFiles = {}
  /\ computed = {}
  /\ run = 1
  /\ genDir0 = genDir
  /\ pkg0 = pkg
  /\ genDir1 = NoFiles
  /\ pkg1 = pkg
  /\ generatedFiles1 = {}
  /\ TokIdle

GenInit == GenInitOf(Registries)

(***************************************************************************)
(* main(): one action per file-system step.                                *)
(***************************************************************************)
\* writeFileSync(join(GENERATED_DIR, name), JSON.stringify(content))
WriteFile(dir, name, content) ==
  [f \in DOMAIN dir \cup {name} |-> IF f = name THEN content ELSE dir[f]]

\* the languages main generates a per-language grammar for
LoopLanguages(r, langs) == IF r = "tag" THEN langs ELSE SelectSeq(langs, IsNotHtml)

\* where main goes once the per-language loop is over
AfterLoop(r) == IF r = "tag" THEN "fenced" ELSE "embed"

\* the artifacts one run builds: every grammar file and the manifest
AllArtifacts(r, langs) ==
  {GrammarFileName(LoopLanguages(r, langs)[k]) : k \in DOMAIN LoopLanguages(r, langs)}
    \cup {FencedFileName, "package.json"}
    \cup (IF r = "marker" THEN {EmbedFileName, InjectionFileName} ELSE {})

\* readJSON(LANGUAGES_FILE) succeeds
ReadLanguages ==
  /\ pc = "start"
  /\ regFile.status \notin Unreadable
  /\ ~(rev = "marker" /\ regFile.status = "notarray")
  /\ languages' = regFile.value
  /\ pc' = "mkdir"
  /\ UNCHANGED <<rev, regFile, pkg, dirExists, genDir, idx, generatedFiles, computed,
                 run, genDir0, pkg0, genDir1, pkg1, generatedFiles1>>
  /\ UNCHANGED tokVars

\* readJSON(LANGUAGES_FILE) prints its diagnostic and exits with status 1; in
\* the marker-based revision languages.filter throws on a value that is no array
ReadLanguagesFails ==
  /\ pc = "start"
  /\ \/ regFile.status \in Unreadable
     \/ rev = "marker" /\ regFile.status = "notarray"
  /\ pc' = "failed"
  /\ UNCHANGED <<rev, regFile, pkg, dirExists, genDir, languages, idx, generatedFiles,
                 computed, run, genDir0, pkg0, genDir1, pkg1, generatedFiles1>>
  /\ UNCHANGED tokVars

\* mkdirSync(GENERATED_DIR, { recursive: true }); the for-of loop that follows
\* throws when languages is not iterable
MkDir ==
  /\ pc = "mkdir"
  /\ dirExists' = TRUE
  /\ idx' = 1
  /\ pc' = IF regFile.status = "notarray" THEN "failed"
           ELSE IF Len(LoopLanguages(rev, languages)) = 0 THEN AfterLoop(rev)
           ELSE "gen"
  /\ UNCHANGED <<rev, regFile, pkg, genDir, languages, generatedFiles, computed,
                 run, genDir0, pkg0, genDir1, pkg1, generatedFiles1>>
  /\ UNCHANGED tokVars

\* one iteration of the per-language loop: build the grammar, write it
GenLang ==
  /\ pc = "gen"
  /\ idx <= Len(LoopLanguages(rev, languages))
  /\ LET lang == LoopLanguages(rev, languages)[idx]
         fileName == GrammarFileName(lang)
         grammar == IF rev = "tag" THEN generatePerLanguageGrammar(lang, languages)
                    ELSE generatePerLanguageGrammarV2(lang)
     IN /\ genDir' = WriteFile(genDir, fileName, grammar)
        /\ generatedFiles' = generatedFiles \cup {fileName}
        /\ computed' = computed \cup {fileName}
  /\ idx' = idx + 1
  /\ pc' = IF idx = Len(LoopLanguages(rev, languages)) THEN AfterLoop(rev) ELSE "gen"
  /\ UNCHANGED <<rev, regFile, pkg, dirExists, languages,
                 run, genDir0, pkg0, genDir1, pkg1, generatedFiles1>>
  /\ UNCHANGED tokVars

\* marker-based revision: the shared embed pattern library
GenEmbed ==
  /\ pc = "embed"
  /\ genDir' = WriteFile(genDir, EmbedFileName,
                         generateEmbedGrammar(SelectSeq(languages, IsNotHtml)))
  /\ generatedFiles' = generatedFiles \cup {EmbedFileName}
  /\ computed' = computed \cup {EmbedFileName}
  /\ pc' = "inject"
  /\ UNCHANGED <<rev, regFile, pkg, dirExists, languages, idx,
                 run, genDir0, pkg0, genDir1, pkg1, generatedFiles1>>
  /\ UNCHANGED tokVars

\* marker-based revision: the injection grammar for jig-html
GenInjection ==
  /\ pc = "inject"
  /\ genDir' = WriteFile(genDir, InjectionFileName, generateInjectionGrammar(languages).grammar)
  /\ generatedFiles' = generatedFiles \cup {InjectionFileName}
  /\ computed' = computed \cup {InjectionFileName}
  /\ pc' = "fenced"
  /\ UNCHANGED <<rev, regFile, pkg, dirExists, languages, idx,
                 run, genDir0, pkg0, genDir1, pkg1, generatedFiles1>>
  /\ UNCHANGED tokVars

\* the fenced code block injection grammar
GenFenced ==
  /\ pc = "fenced"
  /\ genDir' = WriteFile(genDir, FencedFileName, generateFencedCodeBlockGrammar(languages).grammar)
  /\ generatedFiles' = generatedFiles \cup {FencedFileName}
  /\ computed' = computed \cup {FencedFileName}
  /\ pc' = "clean"
  /\ UNCHANGED <<rev, regFile, pkg, dirExists, languages, idx,
                 run, genDir0, pkg0, genDir1, pkg1, generatedFiles1>>
  /\ UNCHANGED tokVars

\* variant: the membership test is inverted
StaleFiles_Inverted(dir, generated) ==
  {f \in DOMAIN dir : EndsWith(f, GrammarSuffix) /\ f \in generated}

\* the files the stale-file loop unlinks
StaleFiles(dir, generated) ==
  {f \in DOMAIN dir : EndsWith(f, GrammarSuffix) /\ f \notin generated}

\* clean stale files from generated/
CleanStale ==
  /\ pc = "clean"
  /\ genDir' = [f \in DOMAIN genDir \ StaleFiles(genDir, generatedFiles) |-> genDir[f]]
  /\ pc' = "pkg"
  /\ UNCHANGED <<rev, regFile, pkg, dirExists, languages, idx, generatedFiles, computed,
                 run, genDir0, pkg0, genDir1, pkg1, generatedFiles1>>
  /\ UNCHANGED tokVars

\* the manifest the current revision writes
Reconciled(r, packageJson, langs) ==
  LET fenced == generateFencedCodeBlockGrammar(langs)
      injection == generateInjectionGrammar(langs)
  IN IF r = "tag"
       THEN updatePackageJson(packageJson, langs, fenced.embeddedLanguages, fenced.tokenTypes)
       ELSE updatePackageJsonV2(packageJson, langs,
                                injection.embeddedLanguages, injection.tokenTypes,
                                fenced.embeddedLanguages, fenced.tokenTypes)

\* updatePackageJson reads package.json, rebuilds the contributions, writes it
UpdatePackageJson ==
  /\ pc = "pkg"
  /\ pkg.status = "ok"
  /\ pkg' = [status |-> "ok", value |-> Reconciled(rev, pkg.value, languages)]
  /\ computed' = computed \cup {"package.json"}
  /\ pc' = "done"
  /\ UNCHANGED <<rev, regFile, dirExists, genDir, languages, idx, generatedFiles,
                 run, genDir0, pkg0, genDir1, pkg1, generatedFiles1>>
  /\ UNCHANGED tokVars

\* readJSON(PACKAGE_JSON_FILE) prints its diagnostic and exits with status 1
UpdatePackageJsonFails ==
  /\ pc = "pkg"
  /\ pkg.status \in Unreadable
  /\ pc' = "failed"
  /\ UNCHANGED <<rev, regFile, pkg, dirExists, genDir, languages, idx, generatedFiles,
                 computed, run, genDir0, pkg0, genDir1, pkg1, generatedFiles1>>
  /\ UNCHANGED tokVars

\* the script is run again on the files the previous run left
Rerun ==
  /\ pc = "done"
  /\ run < MaxRuns
  /\ run' = run + 1
  /\ genDir0' = genDir
  /\ pkg0' = pkg
  /\ genDir1' = genDir
  /\ pkg1' = pkg
  /\ generatedFiles1' = generatedFiles
  /\ pc' = "start"
  /\ languages' = <<>>
  /\ idx' = 0
  /\ generatedFiles' = {}
  /\ computed' = {}
  /\ UNCHANGED <<rev, regFile, pkg, dirExists, genDir>>
  /\ UNCHANGED tokVars

GenNext ==
  \/ ReadLanguages
  \/ ReadLanguagesFails
  \/ MkDir
  \/ GenLang
  \/ GenEmbed
  \/ GenInjection
  \/ GenFenced
  \/ CleanStale
  \/ UpdatePackageJson
  \/ UpdatePackageJsonFails
  \/ Rerun

Init == GenInit
Next == GenNext
vars == <<genVars, tokVars>>
Spec == Init /\ [][Next]_vars

\* the registries of languages with and without greedy contexts
GreedyRegistries ==
  {r \in SeqsUpTo({LTs, LMd, LMdx}, MaxLangs) : \A i, j \in DOMAIN r : r[i] = r[j] => i = j}

\* the runs of main() on those registries
PierceSpec == GenInitOf(GreedyRegistries) /\ [][Next]_vars

\* registries of languages with pairwise distinct ids, some of which share the
\* names derived from them
NamingRegistries ==
  {r \in SeqsUpTo({LTs, LBareTs, LDash, LUnder}, MaxLangs) :
     \A i, j \in DOMAIN r : r[i].id = r[j].id => i = j}

\* the runs of main() on those registries
NamingSpec == GenInitOf(NamingRegistries) /\ [][Next]_vars

(***************************************************************************)
(* The patterns of the generated rules, matched at the start of a line.    *)
(***************************************************************************)
MaxLines == 4

Letters ==
  {"a", "b", "c", "d", "e", "f", "g", "h", "i", "j", "k", "l", "m",
   "n", "o", "p", "q", "r", "s", "t", "u", "v", "w", "x", "y", "z",
   "A", "B", "C", "D", "E", "F", "G", "H", "I", "J", "K", "L", "M",
   "N", "O", "P", "Q", "R", "S", "T", "U", "V", "W", "X", "Y", "Z"}

\* s.substring(a - 1, b): the characters at positions a..b that exist
Mid(s, a, b) ==
  LET lo == IF a < 1 THEN 1 ELSE a
      hi == IF b > Len(s) THEN Len(s) ELSE b
  IN IF lo > hi THEN "" ELSE SubSeq(s, lo, hi)

\* the character at position k, "" outside the string
CharAt(s, k) == Mid(s, k, k)

\* \s* from position k: the position after it
RECURSIVE SkipSpaces(_, _)
SkipSpaces(s, k) == IF CharAt(s, k) \in {" ", "\t"} THEN SkipSpaces(s, k + 1) ELSE k

\* the text captured by a leading (\s*)
LeadingSpaces(line) == Mid(line, 1, SkipSpaces(line, 1) - 1)

\* whether one element of a pattern accepts the character c: a character
\* class, "=" and a literal character, or "~" and a literal character of a
\* (?i: ... ) group
InClass(c, cls) ==
  CASE cls = "\\s" -> c \in {" ", "\t"}
    [] cls = "[a-zA-Z._]" -> c \in Letters \cup {".", "_"}
    [] cls = "[a-zA-Z]" -> c \in Letters
    [] cls = "[^)]" -> c # ")"
    [] cls = "\\S" -> c \notin {" ", "\t"}
    [] cls = "." -> TRUE
    [] cls = "[ :,{?]" -> c \in {" ", "\t", ":", ",", "{", "?"}
    [] StartsWith(cls, "=") -> c = Mid(cls, 2, 2)
    [] StartsWith(cls, "~") -> LowerChar(c) = LowerChar(Mid(cls, 2, 2))
    [] OTHER -> FALSE

\* whether the elements items[i..], each <<class, min, max>> with max = -1 for
\* no limit, match s from position k to its end, count characters having been
\* taken by items[i] already
RECURSIVE MatchFrom(_, _, _, _, _)
MatchFrom(s, k, items, i, count) ==
  IF i > Len(items) THEN k = Len(s) + 1
  ELSE \/ /\ count >= items[i][2]
          /\ MatchFrom(s, k, items, i + 1, 0)
       \/ /\ items[i][3] = -1 \/ count < items[i][3]
          /\ k <= Len(s)
          /\ InClass(CharAt(s, k), items[i][1])
          /\ MatchFrom(s, k + 1, items, i, count + 1)

\* the pattern ^items$ matches the line
Matches(items, line) == MatchFrom(line, 1, items, 1, 0)

\* the elements of a literal text
Lit(text) == [k \in 1..Len(text) |-> <<"=" \o Mid(text, k, k), 1, 1>>]

\* the elements of a literal text inside a (?i: ... ) group
LitCI(text) == [k \in 1..Len(text) |-> <<"~" \o Mid(text, k, k), 1, 1>>]

\* \s*
WS == <<"\\s", 0, -1>>

\* .* up to the end of the line
REST == <<".", 0, -1>>

\* (\s*)(@{1,2}(!)?[a-zA-Z._]+
TAG == <<WS, <<"=@", 1, 2>>, <<"=!", 0, 1>>, <<"[a-zA-Z._]", 1, -1>>>>

\* \s{0,2})(\([^)]*\))
ARGS == <<<<"\\s", 0, 2>>, <<"=(", 1, 1>>, <<"[^)]", 0, -1>>, <<"=)", 1, 1>>>>

\* s.split(sep) as a set
RECURSIVE Split(_, _)
Split(s, sep) ==
  LET k == IndexOf(s, sep)
  IN IF k = 0 THEN {s}
     ELSE {Mid(s, 1, k - 1)} \cup Split(Mid(s, k + Len(sep), Len(s)), sep)

\* the text an escaped pattern matches
RECURSIVE Unescape(_)
Unescape(s) ==
  IF Len(s) = 0 THEN ""
  ELSE IF Mid(s, 1, 1) = "\\" THEN Mid(s, 2, 2) \o Unescape(Mid(s, 3, Len(s)))
  ELSE Mid(s, 1, 1) \o Unescape(Mid(s, 2, Len(s)))

EMBED_BEGIN_HEAD ==
  "(\\s*)(@{1,2}(!)?[a-zA-Z._]+\\s{0,2})(\\([^)]*\\))(\\s*:\\s*(?i:"
EMBED_BEGIN_TAIL == "))\\s*$"

IsEmbedBegin(re) ==
  /\ StartsWith(re, "^" \o EMBED_BEGIN_HEAD) \/ StartsWith(re, "(^|\\G)" \o EMBED_BEGIN_HEAD)
  /\ EndsWith(re, EMBED_BEGIN_TAIL)

\* the names listed in the (?i: ... ) group of an embed begin pattern
AlternationOf(re) ==
  LET from == IndexOf(re, EMBED_BEGIN_HEAD) + Len(EMBED_BEGIN_HEAD)
      names == Split(Mid(re, from, Len(re) - Len(EMBED_BEGIN_TAIL)), "|")
  IN {Unescape(n) : n \in names}

\* variant: the pattern is not anchored at the end of the line
EmbedBeginMatches_Unanchored(re, line) ==
  \E n \in AlternationOf(re) :
    Matches(TAG \o ARGS \o <<WS, <<"=:", 1, 1>>, WS>> \o LitCI(n) \o <<REST>>, line)

\* the begin pattern of an embed rule: a tag, its arguments, a colon and one
\* of the names of the group, up to the end of the line
EmbedBeginMatches(re, line) ==
  \E n \in AlternationOf(re) :
    Matches(TAG \o ARGS \o <<WS, <<"=:", 1, 1>>, WS>> \o LitCI(n) \o <<WS>>, line)

\* s without the white space around it
RECURSIVE Trim(_)
Trim(s) ==
  IF Len(s) = 0 THEN s
  ELSE IF CharAt(s, 1) \in {" ", "\t"} THEN Trim(Mid(s, 2, Len(s)))
  ELSE IF CharAt(s, Len(s)) \in {" ", "\t"} THEN Trim(Mid(s, 1, Len(s) - 1))
  ELSE s

\* the number of times tok is repeated at the start of s
RECURSIVE CountPrefix(_, _)
CountPrefix(s, tok) ==
  IF StartsWith(s, tok) THEN 1 + CountPrefix(Mid(s, Len(tok) + 1, Len(s)), tok) ELSE 0

\* the line without the white space it starts with
AfterIndent(line) == Mid(line, Len(LeadingSpaces(line)) + 1, Len(line))

\* the fence a line opens with after its white space, three or more grave
\* accents or three or more tildes; "" when it opens with none
OpeningFence(line) ==
  LET rest == AfterIndent(line)
      graves == CountPrefix(rest, Backtick)
      tildes == CountPrefix(rest, "~")
  IN IF graves >= 3 THEN Mid(rest, 1, graves * Len(Backtick))
     ELSE IF tildes >= 3 THEN Mid(rest, 1, tildes)
     ELSE ""

\* s holds fence characters only, grave accents and tildes, n of them
RECURSIVE FenceChars(_)
FenceChars(s) ==
  IF s = "" THEN 0
  ELSE IF StartsWith(s, Backtick)
    THEN (LET n == FenceChars(Mid(s, Len(Backtick) + 1, Len(s)))
          IN IF n < 0 THEN -1 ELSE n + 1)
  ELSE IF StartsWith(s, "~")
    THEN (LET n == FenceChars(Mid(s, 2, Len(s))) IN IF n < 0 THEN -1 ELSE n + 1)
  ELSE -1

\* \s*([`~]{3,})\s*$ : the line holds three or more fence characters and
\* white space around them
IsBareFence(line) == FenceChars(Trim(line)) >= 3

FENCED_BEGIN_HEAD == "(^|\\G)(\\s*)(" \o Backtick \o "{3,}|~{3,})\\s*(?i:("
FENCED_BEGIN_TAIL == ")((\\s+|:|,|\\{|\\?)[^" \o Backtick \o "]*)?$)"

IsFencedBegin(re) == StartsWith(re, FENCED_BEGIN_HEAD) /\ EndsWith(re, FENCED_BEGIN_TAIL)

\* the begin pattern of a fenced rule: a fence, one of the names of the
\* group, then nothing or a separator and attributes without a grave accent
FencedBeginMatches(re, line) ==
  LET fence == OpeningFence(line)
      info == Mid(AfterIndent(line), Len(fence) + 1, Len(line))
      names == Split(Mid(re, Len(FENCED_BEGIN_HEAD) + 1, Len(re) - Len(FENCED_BEGIN_TAIL)), "|")
  IN /\ fence # ""
     /\ \E n \in names :
          \/ Matches(<<WS>> \o LitCI(Unescape(n)), info)
          \/ /\ Matches(<<WS>> \o LitCI(Unescape(n))
                          \o <<<<"[ :,{?]", 1, 1>>, REST>>, info)
             /\ IndexOf(info, Backtick) = 0

FENCED_END == "(^|\\G)(\\2|\\s{0,3})(\\3)\\s*$"
ANY_FENCE_END == "(^|\\G)(\\2|\\s{0,3})([" \o Backtick \o "~]{3,})\\s*$"

\* an end pattern with back-references, matched with the texts the begin
\* pattern of the open rule captured: its white space and its fence
EndMatches(re, frame, line) ==
  CASE re = FENCED_END ->
         /\ LeadingSpaces(line) = frame.indent \/ Len(LeadingSpaces(line)) <= 3
         /\ Trim(line) = frame.fence
    [] re = ANY_FENCE_END ->
         /\ LeadingSpaces(line) = frame.indent \/ Len(LeadingSpaces(line)) <= 3
         /\ IsBareFence(line)
    [] OTHER -> FALSE

\* whether the pattern re matches at the start of the line; indent is the text
\* of the back-reference of a while pattern
RegexMatches(re, indent, line) ==
  CASE re = "^(\\s*)(@{1,2}(!)?[a-zA-Z._]+\\s{0,2})(\\([^)]*\\))\\s*$" ->
         Matches(TAG \o ARGS \o <<WS>>, line)
    [] re = "^\\s*(@end)\\s*$" ->
         Matches(<<WS>> \o Lit("@end") \o <<WS>>, line)
    [] re = "^\\s*(@end[a-zA-Z]*)\\s*$" ->
         Matches(<<WS>> \o Lit("@end") \o <<<<"[a-zA-Z]", 0, -1>>, WS>>, line)
    [] re \in {"^(?!\\1@end\\s*$)", "(^|\\G)(?!\\2@end\\s*$)"} ->
         ~Matches(Lit(indent) \o Lit("@end") \o <<WS>>, line)
    [] re = "(^|\\G)(\\s*)((@{1,2})(!)?([a-zA-Z._]+))(~)?$" ->
         Matches(TAG \o <<<<"=~", 0, 1>>>>, line)
    [] re = "(^|\\G)(\\s*)((@{1,2})(!)?([a-zA-Z._]+)(\\s{0,2}))(\\()" ->
         Matches(TAG \o <<<<"\\s", 0, 2>>, <<"=(", 1, 1>>, REST>>, line)
    [] re \in {"\\{{--", "\\@{{", "\\{{{", "\\{{"} ->
         Matches(Lit(Unescape(re)) \o <<REST>>, line)
    [] re = "(^|\\G)[ ]{0,3}(?=\\S)" ->
         Matches(<<<<"= ", 0, 3>>, <<"\\S", 1, 1>>, REST>>, line)
    [] re = "(^|\\G)" -> TRUE
    [] re = "(^|\\G)(\\s*)(.*)" -> TRUE
    [] re = "(^|\\G)(?!\\s*([" \o Backtick \o "~]{3,})\\s*$)" -> ~IsBareFence(line)
    [] IsFencedBegin(re) -> FencedBeginMatches(re, line)
    [] IsEmbedBegin(re) -> EmbedBeginMatches(re, line)
    [] OTHER -> FALSE

(***************************************************************************)
(* tokenizeContent: a document tokenized line by line with the grammar of  *)
(* one language, the rule stack threaded from each line to the next.       *)
(***************************************************************************)
\* the registry the loaded grammars were generated from
TokRegistry == <<LTs, LTsx, LMd>>

TokScopes == {getPerLanguageScopeName(l) : l \in Range(TokRegistry)}

\* the grammar files of the registry, by scope name
GrammarFiles ==
  [scope \in TokScopes |->
     LET lang == CHOOSE l \in Range(TokRegistry) : getPerLanguageScopeName(l) = scope
     IN generatePerLanguageGrammar(lang, TokRegistry)]

\* the grammar of the fenced code blocks of the registry
FencedGrammarFile == generateFencedCodeBlockGrammar(TokRegistry).grammar

\* registry.loadGrammar(scopeName)
loadGrammar(scope) ==
  IF scope = FENCED_CODE_BLOCK_SCOPE THEN FencedGrammarFile ELSE GrammarFiles[scope]

\* source.jig: the rules generateJigEmbedInnerPatterns inlines
SourceJigPatterns == generateJigEmbedInnerPatterns.patterns

\* a greedy context of the markdown grammar (paragraph, list): it opens at a
\* line of text and runs on over the lines that follow, blank lines included
MarkdownParagraph ==
  [name |-> "meta.paragraph.markdown",
   begin |-> "(^|\\G)[ ]{0,3}(?=\\S)",
   while |-> "(^|\\G)",
   patterns |-> <<>>]

\* the rules of the host grammars, by the reference an open rule keeps; the
\* other host grammars are the empty stubs of the test registry
HostRules == ("text.html.markdown#paragraph" :> MarkdownParagraph)

\* the rules written in place in the patterns of the rules of a repository,
\* which a content name tells apart
InlineRules(g) ==
  UNION {{r \in Range(g.repository[key].patterns) : "contentName" \in DOMAIN r} :
           key \in {k \in DOMAIN g.repository : "begin" \in DOMAIN g.repository[k]}}

INLINE_REF == "(inline) "

\* the rule an open rule refers to
RuleOf(g, ref) ==
  IF ref \in DOMAIN HostRules THEN HostRules[ref]
  ELSE IF StartsWith(ref, INLINE_REF)
    THEN CHOOSE r \in InlineRules(g) : INLINE_REF \o r.contentName = ref
  ELSE g.repository[ref]

\* the lines of the documents; each closes on itself the parentheses it opens
LinePool ==
  {"@section(a): ts", "@if(x)", "@if(f(x))", "@end", "body"}

\* documents with an embed of markdown: text that opens a greedy context,
\* blank lines, a tag and an interpolation
GreedyLines == {"@section(a): md", "body", "", "@if(x)", "{{ y }}", "@end"}

\* documents with an embed of markdown and nested blocks, indented or not
IndentLines == {"@section(a): md", "  @if(x)", "  @end", "@if(x)", "@end", "body"}

\* documents of embed-open markers whose annotations vary in case and length
NameLines ==
  {"@section(a): ts", "@section(a): tsx", "@section(a): TSX", "@section(a): TypeScript",
   "@section(a): t", "@end"}

\* documents with fenced blocks of Jig: fences of three and four grave
\* accents and of tildes, with and without the name of the language
FenceLines ==
  {Backtick \o Backtick \o Backtick \o "jig",
   Backtick \o Backtick \o Backtick \o Backtick \o "jig",
   Backtick \o Backtick \o Backtick,
   Backtick \o Backtick \o Backtick \o Backtick,
   "~~~", "body"}

\* documents with an embed opened inside an embed of a greedy or of a
\* non-greedy target, its markers indented or not
NestLines ==
  {"@section(a): md", "@section(a): tsx", "@section(b): ts", "  @section(b): ts",
   "@end", "  @end", "body"}

\* the lines of all the documents
AllLines ==
  LinePool \cup GreedyLines \cup IndentLines \cup NameLines \cup NestLines \cup FenceLines

\* the begin, match and end patterns of a rule
RulePatterns(rule) == {rule[f] : f \in DOMAIN rule \cap {"begin", "match", "end"}}

\* the patterns of the loaded grammars
GrammarPatterns ==
  UNION {RulePatterns(r) :
           r \in UNION {Range(GrammarFiles[scope].repository) : scope \in TokScopes}
                   \cup Range(FencedGrammarFile.repository) \cup InlineRules(FencedGrammarFile)
                   \cup Range(SourceJigPatterns) \cup Range(HostRules)}

\* the lines each pattern matches at their start, as the regular expression
\* engine finds them
PatternHits ==
  [re \in GrammarPatterns |-> {line \in AllLines : RegexMatches(re, "", line)}]

\* the rules an include stands for, in order
ResolveInclude(g, inc) ==
  IF StartsWith(inc, "#")
    THEN LET key == Mid(inc, 2, Len(inc))
         IN IF key \notin DOMAIN g.repository THEN <<>>
            ELSE IF "begin" \in DOMAIN g.repository[key]
              THEN <<[ref |-> key, rule |-> g.repository[key]]>>
            ELSE [k \in DOMAIN g.repository[key].patterns |->
                    [ref |-> "", rule |-> g.repository[key].patterns[k]]]
  ELSE IF inc = "source.jig"
    THEN [k \in DOMAIN SourceJigPatterns |-> [ref |-> "", rule |-> SourceJigPatterns[k]]]
  ELSE IF inc = "text.html.markdown"
    THEN <<[ref |-> "text.html.markdown#paragraph", rule |-> MarkdownParagraph]>>
  ELSE <<>>

\* the rules a list of patterns stands for: those its includes stand for and
\* the rules written in place
RECURSIVE ResolvePatterns(_, _)
ResolvePatterns(g, patterns) ==
  IF Len(patterns) = 0 THEN <<>>
  ELSE (IF "include" \in DOMAIN Head(patterns)
          THEN ResolveInclude(g, Head(patterns).include)
          ELSE <<[ref |-> INLINE_REF \o Head(patterns).contentName, rule |-> Head(patterns)]>>)
         \o ResolvePatterns(g, Tail(patterns))

\* the content names of the open rules
RECURSIVE ContentNames(_, _)
ContentNames(g, stack) ==
  IF Len(stack) = 0 THEN <<>>
  ELSE LET rule == RuleOf(g, Head(stack).ref)
       IN (IF "contentName" \in DOMAIN rule THEN <<rule.contentName>> ELSE <<>>)
            \o ContentNames(g, Tail(stack))

\* the scopes of the text inside the open rules
ScopesOf(g, stack) == <<g.scopeName>> \o ContentNames(g, stack)

\* a scope selector matches a scope name on whole dot-separated segments
ScopeMatches(scope, sel) == scope = sel \/ StartsWith(scope, sel \o ".")

\* an injection selector of the form L:scope - (excluded | excluded ...)
SelectorMatches(sel, scopes) ==
  LET body == IF StartsWith(sel, "L:") THEN Mid(sel, 3, Len(sel)) ELSE sel
      k == IndexOf(body, " - (")
      included == Mid(body, 1, k - 1)
      excluded == Split(Mid(body, k + 4, Len(body) - 1), " | ")
  IN /\ k > 0
     /\ \E i \in DOMAIN scopes : ScopeMatches(scopes[i], included)
     /\ ~\E i \in DOMAIN scopes : \E e \in excluded : ScopeMatches(scopes[i], e)

\* the rules the grammar's injections add where the scopes are open
InjectedRules(g, scopes) ==
  LET applying == IF "injections" \in DOMAIN g
                    THEN {sel \in DOMAIN g.injections : SelectorMatches(sel, scopes)}
                    ELSE {}
  IN IF applying = {} THEN <<>>
     ELSE ResolvePatterns(g, g.injections[CHOOSE sel \in applying : TRUE].patterns)

\* the rule stack once the while patterns of the open rules have been tested,
\* from the outermost rule inwards: the first that fails is popped with all
\* the rules above it
CheckWhileConditions(g, stack, line) ==
  LET failing == {i \in DOMAIN stack :
                    /\ "while" \in DOMAIN RuleOf(g, stack[i].ref)
                    /\ ~RegexMatches(RuleOf(g, stack[i].ref)["while"], stack[i].indent, line)}
  IN IF failing = {} THEN stack
     ELSE SubSeq(stack, 1, (CHOOSE i \in failing : \A j \in failing : i <= j) - 1)

\* the candidates at the start of a line, best first: the left-priority
\* injections, the end pattern of the innermost open rule, its patterns
Candidates(g, stack) ==
  LET top == IF Len(stack) = 0 THEN [patterns |-> g.patterns]
             ELSE RuleOf(g, stack[Len(stack)].ref)
  IN InjectedRules(g, ScopesOf(g, stack))
       \o (IF "end" \in DOMAIN top
             THEN <<[ref |-> "$end", rule |-> [match |-> top.end, captures |-> top.endCaptures],
                     frame |-> stack[Len(stack)]]>>
           ELSE <<>>)
       \o ResolvePatterns(g, top.patterns)

\* an end pattern that refers back to the captures of the begin pattern
HasBackReference(re) == IndexOf(re, "\\2") > 0 \/ IndexOf(re, "\\3") > 0

CandidateMatches(c, line) ==
  IF c.ref = "$end" /\ HasBackReference(c.rule.match) THEN EndMatches(c.rule.match, c.frame, line)
  ELSE IF "match" \in DOMAIN c.rule THEN line \in PatternHits[c.rule.match]
  ELSE line \in PatternHits[c.rule.begin]

\* no candidate matches at the start of the line
NoMatch == [ref |-> "", rule |-> [comment |-> ""]]

\* the first of the candidates, from the k-th on, that matches at the start of
\* the line
RECURSIVE FirstMatch(_, _, _)
FirstMatch(cands, k, line) ==
  IF k > Len(cands) THEN NoMatch
  ELSE IF CandidateMatches(cands[k], line) THEN cands[k]
  ELSE FirstMatch(cands, k + 1, line)

MatchRuleOrInjections(g, stack, line) == FirstMatch(Candidates(g, stack), 1, line)

\* the rule stack after the line: the rule that ended is popped, the rule that
\* opened is pushed with the white space its begin pattern captured; a rule
\* that opens and closes on the line leaves the stack as it was
\* the candidates that can open where a match has left nothing of the line:
\* the rules whose begin pattern is anchored at the end of the match before
IsContinuation(c) == "begin" \in DOMAIN c.rule /\ StartsWith(c.rule.begin, "(^|\\G)")

\* the rule stack once a rule has opened on a line its begin pattern has
\* taken whole: a rule among its patterns that matches the empty rest of the
\* line opens on that line too
OpenedOn(g, opened, line) ==
  LET next == FirstMatch(SelectSeq(ResolvePatterns(g, RuleOf(g, opened[Len(opened)].ref).patterns),
                                   IsContinuation), 1, "")
  IN IF next.ref = "" THEN opened
     ELSE Append(opened, [ref |-> next.ref, indent |-> "", fence |-> ""])

StackAfter(g, kept, won, line) ==
  IF won.ref = "$end" THEN SubSeq(kept, 1, Len(kept) - 1)
  ELSE IF won.ref = "" THEN kept
  ELSE OpenedOn(g, Append(kept, [ref |-> won.ref, indent |-> LeadingSpaces(line),
                                 fence |-> OpeningFence(line)]), line)

\* the scopes the captures of a matched rule give to its marker
CaptureScopes(rule) ==
  IF "captures" \in DOMAIN rule THEN Range(rule.captures)
  ELSE IF "beginCaptures" \in DOMAIN rule THEN Range(rule.beginCaptures)
  ELSE {}

\* the token of a line: the markers of a rule carry the scopes around it; rule
\* is "$end", the repository key of the rule that opened, "inline" for a rule
\* that opens and closes on the line, "" when none matched
LineTokens(g, kept, won, line) ==
  [startIndex |-> 0,
   endIndex |-> Len(line),
   scopes |-> IF won.ref = "$end" THEN ScopesOf(g, SubSeq(kept, 1, Len(kept) - 1))
              ELSE ScopesOf(g, kept),
   rule |-> IF won.ref # "" THEN won.ref ELSE IF won = NoMatch THEN "" ELSE "inline",
   captures |-> CaptureScopes(won.rule)]

\* the line tokenized once the while patterns have been tested and the
\* winning candidate is known
LineResult(g, kept, won, line) ==
  [ruleStack |-> StackAfter(g, kept, won, line), tokens |-> LineTokens(g, kept, won, line)]

ScanLine(g, kept, line) == LineResult(g, kept, MatchRuleOrInjections(g, kept, line), line)

\* grammar.tokenizeLine(line, ruleStack)
tokenizeLine(g, stack, line) == ScanLine(g, CheckWhileConditions(g, stack, line), line)

\* content.split('\n')
RECURSIVE SplitLines(_)
SplitLines(content) ==
  LET k == IndexOf(content, "\n")
  IN IF k = 0 THEN <<content>>
     ELSE <<Mid(content, 1, k - 1)>> \o SplitLines(Mid(content, k + 1, Len(content)))

\* the contents of at most MaxLines lines drawn from a pool
Contents(pool) == {Join(d, "\n") : d \in SeqsUpTo(pool, MaxLines) \ {<<>>}}

\* the entry pushed on result for a line: the text of the token is
\* line.substring(t.startIndex, t.endIndex)
LineEntry(line, t) ==
  [line |-> line,
   text |-> Mid(line, t.startIndex + 1, t.endIndex),
   scopes |-> t.scopes,
   rule |-> t.rule,
   captures |-> t.captures]

\* a call of tokenizeContent(scopeName, content): lines = content.split('\n'),
\* ruleStack = vsctm.INITIAL
TokenizeContentOf(scopes, contents) ==
  /\ tokPc = "idle"
  /\ \E scope \in scopes, content \in contents :
       /\ tokScopeName' = scope
       /\ lines' = SplitLines(content)
  /\ ruleStack' = <<>>
  /\ result' = <<>>
  /\ tokPc' = "lines"
  /\ UNCHANGED genVars

\* a call on a document of tags, blocks and embeds of a non-greedy target
TokenizeContent == TokenizeContentOf({"text.jig.ts"}, Contents(LinePool))

\* the call made once more with the same arguments, as the tests do that
\* tokenize one file each: ruleStack = vsctm.INITIAL again
TokenizeAgain ==
  /\ tokPc = "returned"
  /\ ruleStack' = <<>>
  /\ result' = <<>>
  /\ tokPc' = "lines"
  /\ UNCHANGED <<genVars, tokScopeName, lines>>

\* variant: every line is tokenized from the initial rule stack
TokenizeLine_FromInitial ==
  /\ tokPc = "lines"
  /\ Len(result) < Len(lines)
  /\ LET line == lines[Len(result) + 1]
         lineResult == tokenizeLine(loadGrammar(tokScopeName), <<>>, line)
     IN /\ result' = Append(result, LineEntry(line, lineResult.tokens))
        /\ ruleStack' = lineResult.ruleStack
  /\ UNCHANGED <<genVars, tokPc, tokScopeName, lines>>

\* one iteration of the loop over the lines of the content
TokenizeLine ==
  /\ tokPc = "lines"
  /\ Len(result) < Len(lines)
  /\ LET line == lines[Len(result) + 1]
         lineResult == tokenizeLine(loadGrammar(tokScopeName), ruleStack, line)
     IN /\ result' = Append(result, LineEntry(line, lineResult.tokens))
        /\ ruleStack' = lineResult.ruleStack
  /\ UNCHANGED <<genVars, tokPc, tokScopeName, lines>>

\* the loop is over: registry.dispose(), return result
TokenizeReturn ==
  /\ tokPc = "lines"
  /\ Len(result) = Len(lines)
  /\ tokPc' = "returned"
  /\ UNCHANGED <<genVars, tokScopeName, lines, ruleStack, result>>

\* the generator is not running
TokInit ==
  /\ rev = "tag"
  /\ regFile = [status |-> "ok", value |-> TokRegistry]
  /\ pkg = [status |-> "ok", value |-> [languages |-> <<>>, grammars |-> <<>>]]
  /\ dirExists = FALSE
  /\ genDir = NoFiles
  /\ pc = "idle"
  /\ languages = <<>>
  /\ idx = 0
  /\ generatedFiles = {}
  /\ computed = {}
  /\ run = 1
  /\ genDir0 = genDir
  /\ pkg0 = pkg
  /\ genDir1 = NoFiles
  /\ pkg1 = pkg
  /\ generatedFiles1 = {}
  /\ TokIdle

TokNext ==
  \/ TokenizeContent
  \/ TokenizeLine
  \/ TokenizeReturn
  \/ TokenizeAgain

TokSpec == TokInit /\ [][TokNext]_vars

\* a call on a document with an embed of markdown, in either host
TokenizeGreedy ==
  TokenizeContentOf({"text.jig.ts", "text.jig.markdown"}, Contents(GreedyLines))

GreedyNext ==
  \/ TokenizeGreedy
  \/ TokenizeLine
  \/ TokenizeReturn
  \/ TokenizeAgain

GreedySpec == TokInit /\ [][GreedyNext]_vars

\* a call on a document with nested blocks in an embed of markdown
TokenizeIndented == TokenizeContentOf({"text.jig.ts"}, Contents(IndentLines))

IndentNext ==
  \/ TokenizeIndented
  \/ TokenizeLine
  \/ TokenizeReturn
  \/ TokenizeAgain

IndentSpec == TokInit /\ [][IndentNext]_vars

\* a call on a document of embed-open markers
TokenizeNames == TokenizeContentOf({"text.jig.ts"}, Contents(NameLines))

NamesNext ==
  \/ TokenizeNames
  \/ TokenizeLine
  \/ TokenizeReturn
  \/ TokenizeAgain

NamesSpec == TokInit /\ [][NamesNext]_vars

\* a call on a document with an embed opened inside another
TokenizeNested == TokenizeContentOf({"text.jig.ts"}, Contents(NestLines))

NestNext ==
  \/ TokenizeNested
  \/ TokenizeLine
  \/ TokenizeReturn
  \/ TokenizeAgain

NestSpec == TokInit /\ [][NestNext]_vars

\* a call on a document of fenced blocks, with the grammar of the fenced
\* code blocks
TokenizeFenced == TokenizeContentOf({FENCED_CODE_BLOCK_SCOPE}, Contents(FenceLines))

FenceNext ==
  \/ TokenizeFenced
  \/ TokenizeLine
  \/ TokenizeReturn
  \/ TokenizeAgain

FenceSpec == TokInit /\ [][FenceNext]_vars

(***************************************************************************)
(* Properties of the generated grammars and of a generation run.           *)
(***************************************************************************)
IsEmbedInclude(p) == StartsWith(p.include, "#embed_tag_") \/ p.include = EMBED_GRAMMAR_SCOPE
IsJigBaseInclude(p) == p.include = "source.jig"

EmbedIncludesOf(grammar) == SelectSeq(grammar.patterns, IsEmbedInclude)

\* 1 for an embed rule, 2 for Jig's base patterns, 3 for a host grammar
PatternRank(p) ==
  IF IsEmbedInclude(p) THEN 1 ELSE IF IsJigBaseInclude(p) THEN 2 ELSE 3

\* the languages whose per-language grammar the current run has written
WrittenLanguages ==
  {l \in Range(LoopLanguages(rev, languages)) : GrammarFileName(l) \in generatedFiles}

\* C1 as stated: the top-level embed rules of the grammar of L are those of
\* the registered languages other than L, in registry order.
C1_EmbedPerOtherLanguage ==
  (pc = "done" /\ rev = "tag") =>
    \A l \in WrittenLanguages :
      LET Other(m) == m.id # l.id
          others == SelectSeq(languages, Other)
      IN EmbedIncludesOf(genDir[GrammarFileName(l)])
           = [j \in DOMAIN others |-> [include |-> "#embed_tag_" \o getScopeKey(others[j])]]

\* C1 amended: the top-level pattern list of the grammar of L holds one embed
\* rule per registry entry, the one of L itself included, in registry order.
C1_EmbedPerRegisteredLanguage ==
  (pc = "done" /\ rev = "tag") =>
    \A l \in WrittenLanguages :
      LET e == EmbedIncludesOf(genDir[GrammarFileName(l)])
      IN /\ Len(e) = Len(languages)
         /\ \A j \in DOMAIN e : e[j].include = "#embed_tag_" \o getScopeKey(languages[j])

C1_Witness ==
  /\ pc = "done"
  /\ rev = "tag"
  /\ Len(languages) >= 2
  /\ languages[1].id # languages[2].id
  /\ GrammarFileName(languages[1]) \in DOMAIN genDir

\* C2: in every per-language grammar written, embed rules come first, then
\* source.jig, then the host grammar; the host grammar is last.
C2_TopLevelOrder ==
  \A l \in WrittenLanguages :
    LET ps == genDir[GrammarFileName(l)].patterns
    IN /\ \A i, j \in DOMAIN ps : i < j => PatternRank(ps[i]) <= PatternRank(ps[j])
       /\ \E i \in DOMAIN ps : PatternRank(ps[i]) = 2
       /\ PatternRank(ps[Len(ps)]) = 3

C2_Witness ==
  \E l \in WrittenLanguages :
    LET ps == genDir[GrammarFileName(l)].patterns
    IN /\ Len(ps) >= 4
       /\ PatternRank(ps[1]) = 1
       /\ PatternRank(ps[Len(ps)]) = 3

\* the grammar files of a directory
GrammarFilesOf(dir) == {f \in DOMAIN dir : EndsWith(f, GrammarSuffix)}

\* C3: a second run from the unchanged registry writes the same files with the
\* same contents as the first, whatever the directory held before, and no
\* written file keeps content from before the run.
C3_RunsProduceSameArtifacts ==
  /\ pc = "done" =>
       \A f \in generatedFiles : f \in DOMAIN genDir /\ genDir[f] # OldContent
  /\ (pc = "done" /\ run = 2) =>
       /\ generatedFiles = generatedFiles1
       /\ \A f \in generatedFiles : genDir[f] = genDir1[f]
       /\ GrammarFilesOf(genDir) = GrammarFilesOf(genDir1)

C3_Witness ==
  /\ pc = "done"
  /\ run = 2
  /\ Cardinality(generatedFiles) >= 3
  /\ "jig-ts.tmLanguage.json" \in generatedFiles

\* C4: reconciling the manifest a second time with the same generated set
\* leaves it as the first reconciliation left it.
C4_ReconciliationIdempotent ==
  (pc = "done" /\ run = 2) => pkg = pkg1

C4_Witness ==
  /\ pc = "done"
  /\ run = 2
  /\ Len(languages) >= 1
  /\ HandCustomGrammar \in Range(pkg.value.grammars)
  /\ Len(pkg.value.grammars) >= 4

\* C5 as stated: every hand-authored language or grammar entry of the prior
\* manifest is still there, unchanged, after reconciliation.
C5_HandAuthoredPreserved ==
  pc = "done" =>
    /\ \A g \in Range(pkg0.value.grammars) \cap HandGrammars : g \in Range(pkg.value.grammars)
    /\ \A l \in Range(pkg0.value.languages) \cap HandLanguages : l \in Range(pkg.value.languages)

\* the ids of the registry
RegistryIds == {languages[k].id : k \in DOMAIN languages}

\* C6: after a completed run the directory holds no grammar file the run did
\* not write, and the manifest holds no generated grammar entry of a jig-
\* language that left the registry, nor (tag-based revision) of an old scope.
C6_NothingStale ==
  pc = "done" =>
    /\ \A f \in GrammarFilesOf(genDir) : f \in generatedFiles
    /\ \A g \in Range(pkg.value.grammars) :
         /\ (Has(g, "language") /\ StartsWith(g.language, "jig-") /\ g \notin HandGrammars)
              => g.language \in RegistryIds
         /\ rev = "tag" => g.scopeName \notin oldScopes

C6_Witness ==
  /\ pc = "done"
  /\ run = 1
  /\ "jig-go.tmLanguage.json" \in DOMAIN genDir0
  /\ StaleGoGrammar \in Range(pkg0.value.grammars)
  /\ OldEmbedGrammar \in Range(pkg0.value.grammars)
  /\ rev = "tag"

\* C7 as stated: a run that fails has left the artifact directory and the
\* manifest exactly as they were before the run.
C7_FailureTouchesNothing ==
  pc = "failed" => (genDir = genDir0 /\ pkg = pkg0)

\* two registry entries whose names or aliases collide case-insensitively
Collides(registry) ==
  \E i, j \in DOMAIN registry :
    i < j /\ AlternationNames(registry[i]) \cap AlternationNames(registry[j]) # {}

\* C8 as stated: with colliding names or aliases the run writes no artifact
\* and does not complete.
C8_CollisionFailsFast ==
  (regFile.status = "ok" /\ Collides(regFile.value)) =>
    (generatedFiles = {} /\ pc # "done")

\* C9 as stated: no output file is written before every artifact of the run
\* has been built in memory.
C9_WritesAfterAllComputed ==
  (generatedFiles # {} \/ pkg # pkg0) => computed = AllArtifacts(rev, languages)

(***************************************************************************)
(* Properties of a tokenized document.                                     *)
(***************************************************************************)
\* the lines tokenized so far
DocLines == [k \in DOMAIN result |-> result[k].line]

\* the position of the parenthesis closing the one opened before position k,
\* depth parentheses being open at k; 0 when it is never closed
RECURSIVE MatchingParen(_, _, _)
MatchingParen(s, k, depth) ==
  IF k > Len(s) THEN 0
  ELSE IF CharAt(s, k) = "(" THEN MatchingParen(s, k + 1, depth + 1)
  ELSE IF CharAt(s, k) = ")"
    THEN (IF depth = 1 THEN k ELSE MatchingParen(s, k + 1, depth - 1))
  ELSE MatchingParen(s, k + 1, depth)

\* a tag(args) line: a tag, its arguments between matching parentheses,
\* nothing after them
IsTagWithArgs(line) ==
  LET p == IndexOf(line, "(")
  IN /\ p > 0
     /\ Matches(TAG \o <<<<"\\s", 0, 2>>>>, Mid(line, 1, p - 1))
     /\ MatchingParen(line, p + 1, 1) > 0
     /\ Matches(<<WS>>, Mid(line, MatchingParen(line, p + 1, 1) + 1, Len(line)))

\* a bare closing marker
IsClosingMarker(line) == Matches(<<WS>> \o Lit("@end") \o <<WS>>, line)

\* an embed-open marker of some registered language
IsEmbedOpen(line) ==
  \E k \in DOMAIN TokRegistry :
    RegexMatches(generateEmbedTagRule(TokRegistry[k], FALSE).begin, "", line)

\* the number of nested blocks open after the lines of an embed's body; -1
\* once the closing marker at the depth of the embed has been passed
RECURSIVE NestingDepth(_)
NestingDepth(body) ==
  IF Len(body) = 0 THEN 0
  ELSE LET d == NestingDepth(SubSeq(body, 1, Len(body) - 1))
           line == body[Len(body)]
       IN IF d = -1 THEN -1
          ELSE IF IsTagWithArgs(line) THEN d + 1
          ELSE IF IsClosingMarker(line) THEN d - 1
          ELSE d

\* the first line opened the top-level embed of a non-greedy target and no
\* later line is an embed-open marker
NonGreedyEmbedWithBlocks ==
  /\ Len(result) >= 1
  /\ StartsWith(result[1].rule, "embed_tag_")
  /\ "end" \in DOMAIN loadGrammar(tokScopeName).repository[result[1].rule]
  /\ \A k \in 2..Len(result) : ~IsEmbedOpen(result[k].line)

\* C10 as stated: in an embed of a non-greedy target whose body holds nested
\* tag(args)...closing-marker blocks, the closing marker of a nested block
\* does not close the embed: the embed stays open, and every body line carries
\* the target's content scope, until the closing marker at the depth of the
\* embed, which ends it.
C10_NestedBlockKeepsEmbedOpen ==
  NonGreedyEmbedWithBlocks =>
    LET g == loadGrammar(tokScopeName)
        content == g.repository[result[1].rule].contentName
        d == NestingDepth(Tail(DocLines))
    IN /\ d >= 0 => (ruleStack # <<>> /\ ruleStack[1].ref = result[1].rule)
       /\ (d >= 0 /\ Len(result) >= 2) => content \in Range(result[Len(result)].scopes)
       /\ d = -1 => ruleStack = <<>>

(***************************************************************************)
(* Embeds of a greedy target.                                              *)
(***************************************************************************)
\* the lines that are a Jig tag, with or without arguments
JigTags == {line \in AllLines : IsTagWithArgs(line) \/ Matches(TAG, line)}

\* the lines an interpolation opens
Interpolations == {line \in AllLines : Matches(<<WS>> \o Lit("{{") \o <<REST>>, line)}

\* the blank lines
BlankLines == {line \in AllLines : Matches(<<WS>>, line)}

\* the bare closing markers
ClosingMarkers == {line \in AllLines : IsClosingMarker(line)}

\* the embed-open markers of each registered language
EmbedOpeners ==
  [lang \in Range(TokRegistry) |->
     {line \in AllLines : RegexMatches(generateEmbedTagRule(lang, FALSE).begin, "", line)}]

\* line k is inside an embed of markdown: a marker opened it on a line before
\* and no bare closing marker has been met since
InsideMarkdownEmbed(k) ==
  \E j \in 1..(k - 1) :
    /\ result[j].line \in EmbedOpeners[LMd]
    /\ \A m \in (j + 1)..k : result[m].line \notin ClosingMarkers

\* line k is a tag or an interpolation that follows a blank line inside an
\* embed of markdown
PiercingCase(k) ==
  /\ k \in 2..Len(result)
  /\ InsideMarkdownEmbed(k)
  /\ result[k - 1].line \in BlankLines
  /\ result[k].line \in JigTags \cup Interpolations

\* the scope the Jig rules give to the marker that opens the line
JigMarkerScope(line) ==
  IF line \in Interpolations THEN "punctuation.mustache.begin" ELSE "support.function.jig"

\* C11: in an embed of markdown, in any host, a Jig tag or an interpolation
\* on a line that follows a blank line is tokenized by a Jig rule and not
\* taken by the greedy context of the host: its marker carries the Jig scope
\* and the line carries the content scope of the embed.
C11_GreedyPiercing ==
  \A k \in DOMAIN result :
    PiercingCase(k) =>
      /\ JigMarkerScope(result[k].line) \in result[k].captures
      /\ "meta.embedded.block.markdown" \in Range(result[k].scopes)

\* a tag met after a blank line while a greedy context of markdown is open
\* inside the embed
C11_Witness ==
  /\ PiercingCase(Len(result))
  /\ result[Len(result)].line \in JigTags
  /\ \E i, j \in DOMAIN ruleStack :
       /\ i < j
       /\ StartsWith(ruleStack[i].ref, "embed_tag_markdown")
       /\ ruleStack[j].ref = "text.html.markdown#paragraph"
  /\ "support.function.jig" \in result[Len(result)].captures

(***************************************************************************)
(* The boundaries of the content scope of an embed.                        *)
(***************************************************************************)
\* the line of the closing marker at the depth of the embed the first line
\* opens, from the k-th line on; 0 when the document has none
RECURSIVE ClosingLine(_, _)
ClosingLine(doc, k) ==
  IF k > Len(doc) THEN 0
  ELSE IF NestingDepth(SubSeq(doc, 2, k)) = -1 THEN k
  ELSE ClosingLine(doc, k + 1)

\* the first line opens an embed of the language and no later line opens an
\* embed of the same language
OpensSingleEmbedOf(lang) ==
  /\ Len(result) >= 1
  /\ result[1].line \in EmbedOpeners[lang]
  /\ \A k \in 2..Len(result) : result[k].line \notin EmbedOpeners[lang]

\* the content scope of the embeds of a language
ContentScopeOf(lang) == generateEmbedTagRule(lang, FALSE).contentName

\* C12 as stated: for the embed opened by a marker and closed by the closing
\* marker at its depth, with no embed of the same target nested in it, the
\* lines strictly between the two markers carry meta.embedded.block.<target>
\* and no other line does: not the marker lines, not the lines after the
\* closing marker.
C12_ContentScopeBetweenMarkers ==
  \A lang \in Range(TokRegistry) :
    (OpensSingleEmbedOf(lang) /\ ClosingLine(DocLines, 2) > 0) =>
      \A k \in DOMAIN result :
        ContentScopeOf(lang) \in Range(result[k].scopes)
          <=> (1 < k /\ k < ClosingLine(DocLines, 2))

\* C19 as stated: when the marker that opens an embed has no closing marker
\* at its depth in the rest of the document, every remaining line is
\* tokenized and carries the content scope of the embed, which stays open.
C19_UnterminatedEmbedStaysOpen ==
  \A lang \in Range(TokRegistry) :
    (OpensSingleEmbedOf(lang) /\ ClosingLine(DocLines, 2) = 0) =>
      /\ \A k \in 2..Len(result) : ContentScopeOf(lang) \in Range(result[k].scopes)
      /\ ruleStack # <<>>
      /\ tokPc = "returned" => Len(result) = Len(lines)

\* line k is the closing marker of a block nested in the embed the first line
\* opens
ClosesNestedBlock(k) ==
  /\ k \in 2..Len(result)
  /\ result[k].line \in ClosingMarkers
  /\ NestingDepth(SubSeq(DocLines, 2, k)) >= 0

\* C20 as stated: in an embed of markdown, the closing marker of a nested
\* block, indented or at the indentation of the marker that opened the embed,
\* does not close the embed: it carries the content scope of the embed and
\* the Jig tag scope, and only the closing marker at the depth of the embed
\* ends it.
C20_NestedCloseKeepsGreedyEmbed ==
  OpensSingleEmbedOf(LMd) =>
    /\ \A k \in DOMAIN result :
         ClosesNestedBlock(k) =>
           /\ ContentScopeOf(LMd) \in Range(result[k].scopes)
           /\ "support.function.jig" \in result[k].captures
    /\ ClosingLine(DocLines, 2) = 0 => ruleStack # <<>>

(***************************************************************************)
(* The language annotation of an embed-open marker.                        *)
(***************************************************************************)
\* the annotation of a tag(args): annotation line, "" when the line has none
Annotation(line) ==
  LET p == IndexOf(line, ")")
      rest == Trim(Mid(line, p + 1, Len(line)))
  IN IF p > 0 /\ Matches(TAG \o ARGS, Mid(line, 1, p)) /\ StartsWith(rest, ":")
       THEN Trim(Mid(rest, 2, Len(rest)))
     ELSE ""

\* the annotation of the line is the name or an alias of the language, letter
\* case aside
NamedBy(lang, line) ==
  ToLower(Annotation(line)) \in AlternationNames(lang)

\* the lines whose annotation names each registered language
MarkersOf == [lang \in Range(TokRegistry) |-> {line \in AllLines : NamedBy(lang, line)}]

\* the embed rules of a language
EmbedRulesOf(lang) ==
  {"embed_tag_" \o getScopeKey(lang), "embed_tag_" \o getScopeKey(lang) \o "_injected"}

\* C13: a line opens the embed rule of a target only when its annotation is,
\* letter case aside, exactly the name or an alias of that target, and a
\* marker met outside every embed opens the rule of the target it names: with
\* ts and tsx registered, "ts" opens the ts embed and "tsx" the tsx embed.
C13_ExactNameSelectsTarget ==
  \A lang \in Range(TokRegistry) :
    /\ \A k \in DOMAIN result :
         result[k].rule \in EmbedRulesOf(lang) => result[k].line \in MarkersOf[lang]
    /\ (Len(result) >= 1 /\ result[1].line \in MarkersOf[lang]) =>
         result[1].rule \in EmbedRulesOf(lang)

\* the marker of tsx, in capitals, opened the tsx embed and not the ts embed
C13_Witness ==
  /\ Len(result) >= 1
  /\ result[1].line = "@section(a): TSX"
  /\ result[1].rule = "embed_tag_tsx"

(***************************************************************************)
(* The includes of the generated grammars.                                 *)
(***************************************************************************)
\* the includes of a list of patterns, those of the rules nested in it too
RECURSIVE IncludesIn(_)
IncludesIn(patterns) ==
  UNION {(IF "include" \in DOMAIN patterns[k] THEN {patterns[k].include} ELSE {})
           \cup (IF "patterns" \in DOMAIN patterns[k] THEN IncludesIn(patterns[k].patterns)
                 ELSE {}) : k \in DOMAIN patterns}

\* the includes of a grammar: of its top-level patterns, of its injections,
\* of the rules of its repository
IncludesOfGrammar(g) ==
  IncludesIn(g.patterns)
    \cup (IF "injections" \in DOMAIN g
            THEN UNION {IncludesIn(g.injections[sel].patterns) : sel \in DOMAIN g.injections}
          ELSE {})
    \cup (IF "repository" \in DOMAIN g
            THEN UNION {IncludesIn(<<g.repository[key]>>) : key \in DOMAIN g.repository}
          ELSE {})

\* the includes of the form #name
LocalIncludes(g) == {inc \in IncludesOfGrammar(g) : StartsWith(inc, "#")}

\* the includes #name the repository of the grammar resolves
RepositoryNames(g) ==
  IF "repository" \in DOMAIN g THEN {"#" \o key : key \in DOMAIN g.repository} ELSE {}

\* C14: in every grammar a run has generated, every include of the form
\* #name, in the top-level patterns, in an injection or in a rule of the
\* repository, names a rule of the repository of that grammar.
C14_LocalIncludesResolve ==
  pc = "done" =>
    \A f \in generatedFiles : LocalIncludes(genDir[f]) \subseteq RepositoryNames(genDir[f])

\* a grammar whose embed rule of ts includes the block consumer and whose
\* markdown injection includes the inlined Jig rules
C14_Witness ==
  /\ pc = "done"
  /\ \E f \in generatedFiles :
       {"#jig_block_ts", "#jig_embed_inner_patterns"} \subseteq LocalIncludes(genDir[f])

(***************************************************************************)
(* The scopes an injection selector excludes.                              *)
(***************************************************************************)
\* the scopes excluded by one alternative of a selector, written
\* scope - (a | b ...) or scope - a - b ...
ExcludedByAlternative(alt) ==
  LET k == IndexOf(alt, " - ")
      rest == Mid(alt, k + 3, Len(alt))
  IN IF k = 0 THEN {}
     ELSE IF StartsWith(rest, "(") THEN Split(Mid(rest, 2, IndexOf(rest, ")") - 1), " | ")
     ELSE Split(rest, " - ")

\* the scopes excluded by a selector, an alternative after the other
ExcludedScopes(sel) == UNION {ExcludedByAlternative(alt) : alt \in Split(sel, ", ")}

\* the content scopes the rules of the repository of a grammar produce
ContentScopes(g) ==
  {g.repository[key].contentName :
     key \in {r \in DOMAIN g.repository : "contentName" \in DOMAIN g.repository[r]}}

\* the primary injection selector of a per-language grammar
PrimarySelector(g) == CHOOSE sel \in DOMAIN g.injections : sel # MD_PIERCING_SELECTOR

\* C15 as stated: the scopes the primary injection selector of a generated
\* grammar excludes are exactly the content scopes its own embed rules
\* produce: none is missing and no other scope is excluded.
C15_ExclusionsAreContentScopes ==
  pc = "done" =>
    /\ rev = "tag" =>
         \A l \in WrittenLanguages :
           ExcludedScopes(PrimarySelector(genDir[GrammarFileName(l)]))
             = ContentScopes(genDir[GrammarFileName(l)])
    /\ rev = "marker" =>
         ExcludedScopes(genDir[InjectionFileName].injectionSelector)
           = ContentScopes(genDir[InjectionFileName])

(***************************************************************************)
(* The result of tokenizeContent.                                          *)
(***************************************************************************)
\* the first n lines of a document tokenized in order from the initial rule
\* stack: the entries of the lines and the rule stack after the last
RECURSIVE Threaded(_, _, _)
Threaded(g, doc, n) ==
  IF n = 0 THEN [entries |-> <<>>, ruleStack |-> <<>>]
  ELSE LET before == Threaded(g, doc, n - 1)
           lineResult == tokenizeLine(g, before.ruleStack, doc[n])
       IN [entries |-> Append(before.entries, LineEntry(doc[n], lineResult.tokens)),
           ruleStack |-> lineResult.ruleStack]

\* C16: the result has one entry per line of the content, in the order of
\* the lines; the first line is tokenized from the initial rule stack and
\* each later line with the rule stack the line before returned; a call made
\* after another starts from the initial rule stack again; the text of a
\* token is the part of its own line its span covers.
C16_LinesThreadTheRuleStack ==
  tokPc # "idle" =>
    LET threaded == Threaded(loadGrammar(tokScopeName), lines, Len(result))
    IN /\ Len(result) <= Len(lines)
       /\ tokPc = "returned" => Len(result) = Len(lines)
       /\ result = threaded.entries
       /\ ruleStack = threaded.ruleStack
       /\ \A k \in DOMAIN result :
            /\ result[k].line = lines[k]
            /\ result[k].text = lines[k]

\* a call has returned whose second line was tokenized inside the embed the
\* first line opened
C16_Witness ==
  /\ tokPc = "returned"
  /\ Len(result) >= 2
  /\ result[1].rule = "embed_tag_ts"
  /\ "meta.embedded.block.ts" \in Range(result[2].scopes)

(***************************************************************************)
(* The registry of the test harness: buildScopeMap and loadGrammar.        *)
(***************************************************************************)
GENERATED_DIR == "syntaxes/generated/"

\* path.resolve(PROJECT_ROOT, entry.path), relative to the project root
ResolvePath(p) == IF StartsWith(p, "./") THEN Mid(p, 3, Len(p)) ELSE p

\* the hand-written grammar files of the extension
HandFilesOnDisk == {ResolvePath(g.path) : g \in HandGrammars}

\* the grammar files of tests/fixtures/grammars, by path
FixtureFiles ==
  ("tests/fixtures/grammars/markdown.tmLanguage.json" :> [scopeName |-> "text.html.markdown"])
    @@ ("tests/fixtures/grammars/yaml.tmLanguage.json" :> [scopeName |-> "source.yaml"])

\* fs.existsSync(filePath) for a path of the project
ExistsOnDisk(dir, p) ==
  \/ p \in HandFilesOnDisk
  \/ \E f \in DOMAIN dir : p = GENERATED_DIR \o f

\* the map.set calls of the first loop of buildScopeMap, in order
RegisteredAssigns(grammars, dir) ==
  LET Usable(e) == /\ Has(e, "scopeName") /\ Has(e, "path")
                   /\ e.scopeName # "" /\ e.path # ""
                   /\ ExistsOnDisk(dir, ResolvePath(e.path))
      kept == SelectSeq(grammars, Usable)
  IN [k \in DOMAIN kept |-> <<kept[k].scopeName, ResolvePath(kept[k].path)>>]

\* variant: every grammar file of the generated directory is mapped by its
\* own scope name, as the fixture grammars are
buildScopeMap_ScanDisk(manifest, dir) ==
  [s \in {dir[f].scopeName : f \in DOMAIN dir} \cup {FixtureFiles[p].scopeName : p \in DOMAIN FixtureFiles} |->
     IF \E p \in DOMAIN FixtureFiles : FixtureFiles[p].scopeName = s
       THEN CHOOSE p \in DOMAIN FixtureFiles : FixtureFiles[p].scopeName = s
     ELSE GENERATED_DIR \o (CHOOSE f \in DOMAIN dir : dir[f].scopeName = s)]

\* buildScopeMap(): scopeName -> file path; the fixture grammars are set after
\* the registered ones
buildScopeMap(manifest, dir) ==
  LET registered == ObjectOf(RegisteredAssigns(manifest.grammars, dir))
  IN [s \in DOMAIN registered \cup {FixtureFiles[p].scopeName : p \in DOMAIN FixtureFiles} |->
        IF \E p \in DOMAIN FixtureFiles : FixtureFiles[p].scopeName = s
          THEN CHOOSE p \in DOMAIN FixtureFiles : FixtureFiles[p].scopeName = s
        ELSE registered[s]]

\* the scope names of STUB_GRAMMARS
STUB_GRAMMARS == {"source.ts", "text.html.basic", "text.html.derivative"}

\* loadGrammar(scopeName) of createRegistry: the file the scope map gives,
\* else a stub, else null
registryLoadGrammar(manifest, dir, scope) ==
  LET scopeMap == buildScopeMap(manifest, dir)
  IN IF scope \in DOMAIN scopeMap THEN [kind |-> "file", path |-> scopeMap[scope]]
     ELSE IF scope \in STUB_GRAMMARS THEN [kind |-> "stub", path |-> ""]
     ELSE [kind |-> "null", path |-> ""]

\* the paths the manifest registers
RegisteredPaths(manifest) ==
  {ResolvePath(manifest.grammars[k].path) : k \in DOMAIN manifest.grammars}

\* the files of the generated directory the manifest does not register
UnregisteredFiles ==
  {f \in DOMAIN genDir : GENERATED_DIR \o f \notin RegisteredPaths(pkg.value)}

\* a grammar entry of the manifest or a fixture grammar carries the scope
ScopeIsProvided(scope) ==
  \/ \E k \in DOMAIN pkg.value.grammars : pkg.value.grammars[k].scopeName = scope
  \/ \E p \in DOMAIN FixtureFiles : FixtureFiles[p].scopeName = scope

\* C17: with a readable manifest, the harness maps a scope to a file of the
\* extension only through a path the manifest registers: a file of the
\* generated directory that is not registered is never loaded, and its scope
\* resolves to a stub or to null unless a registered or fixture grammar
\* carries that scope.
C17_OnlyRegisteredGrammarsLoad ==
  pkg.status = "ok" =>
    LET scopeMap == buildScopeMap(pkg.value, genDir)
    IN /\ \A scope \in DOMAIN scopeMap :
            /\ scopeMap[scope] \in RegisteredPaths(pkg.value) \cup DOMAIN FixtureFiles
            /\ \A f \in UnregisteredFiles : scopeMap[scope] # GENERATED_DIR \o f
       /\ \A f \in UnregisteredFiles :
            ~ScopeIsProvided(genDir[f].scopeName) =>
              registryLoadGrammar(pkg.value, genDir, genDir[f].scopeName).kind
                \in {"stub", "null"}

\* a grammar this run has written is on disk, the manifest does not register
\* it yet, and its scope resolves to null
C17_Witness ==
  /\ pkg.status = "ok"
  /\ \E f \in generatedFiles \cap UnregisteredFiles :
       /\ StartsWith(genDir[f].scopeName, "text.jig.")
       /\ registryLoadGrammar(pkg.value, genDir, genDir[f].scopeName).kind = "null"

(***************************************************************************)
(* The fenced code block grammar.                                          *)
(***************************************************************************)
\* the grammar the content of a fenced rule is delegated to
FencedDelegate(rule) == rule.patterns[1].patterns[1].include

\* the scope of the complete grammar of a language: that of the file the run
\* wrote for it, source.jig.html for the hand-written grammar of jig-html
CompleteGrammarScope(l) ==
  IF l \in WrittenLanguages THEN genDir[GrammarFileName(l)].scopeName ELSE JIG_HTML_SCOPE

\* C18: the fenced code block grammar has one rule for each registered
\* language and one for the bare form, and no other; the rule of a language
\* delegates its content to the scope of the complete grammar of that
\* language, the bare rule to the pure Jig grammar.
C18_FencedRulePerLanguage ==
  pc = "done" =>
    LET g == genDir[FencedFileName]
    IN /\ DOMAIN g.repository
            = {"fenced_jig"} \cup {"fenced_" \o getScopeKey(l) : l \in Range(languages)}
       /\ Cardinality(DOMAIN g.repository) = Len(languages) + 1
       /\ Range(g.patterns) = {[include |-> "#" \o key] : key \in DOMAIN g.repository}
       /\ Len(g.patterns) = Len(languages) + 1
       /\ FencedDelegate(g.repository["fenced_jig"]) = PURE_JIG_LANG.scopeName
       /\ \A l \in Range(languages) :
            FencedDelegate(g.repository["fenced_" \o getScopeKey(l)]) = CompleteGrammarScope(l)

\* a run of two languages has written the fenced grammar with its three rules
C18_Witness ==
  /\ pc = "done"
  /\ Len(languages) = 2
  /\ Cardinality(DOMAIN genDir[FencedFileName].repository) = 3

(***************************************************************************)
(* Nested embeds.                                                          *)
(***************************************************************************)
\* the language whose embed a line opens
OpenedLanguage(line) == CHOOSE l \in Range(TokRegistry) : line \in EmbedOpeners[l]

\* the embeds open after the first k lines, outermost first, each with its
\* language and the indentation of its marker: a marker opens an embed inside
\* the open ones, a closing marker closes the innermost
RECURSIVE OpenEmbeds(_, _)
OpenEmbeds(doc, k) ==
  IF k = 0 THEN <<>>
  ELSE LET before == OpenEmbeds(doc, k - 1)
       IN IF \E l \in Range(TokRegistry) : doc[k] \in EmbedOpeners[l]
            THEN Append(before, [lang |-> OpenedLanguage(doc[k]),
                                 indent |-> LeadingSpaces(doc[k])])
          ELSE IF doc[k] \in ClosingMarkers /\ before # <<>>
            THEN SubSeq(before, 1, Len(before) - 1)
          ELSE before

\* every closing marker of the document closes an open embed and stands at
\* the indentation of the marker that opened it
MarkersPaired(doc) ==
  \A k \in DOMAIN doc :
    doc[k] \in ClosingMarkers =>
      LET before == OpenEmbeds(doc, k - 1)
      IN before # <<>> /\ before[Len(before)].indent = LeadingSpaces(doc[k])

\* the content scopes of embeds among the scopes of line k
EmbedScopesAt(k) ==
  {ContentScopeOf(l) : l \in Range(TokRegistry)} \cap Range(result[k].scopes)

\* the content scopes of a sequence of open embeds
EmbedScopesOf(open) == {ContentScopeOf(open[i].lang) : i \in DOMAIN open}

\* C21 as stated: embeds nest. In a document whose closing markers pair with
\* the markers that open the embeds, a line of the content of B opened inside
\* A carries the content scopes of both; the closing marker of B closes only
\* B, so that it and the lines after it carry the content scope of A; A ends
\* at its own closing marker, after which the lines carry neither.
C21_EmbedsNest ==
  MarkersPaired(DocLines) =>
    \A k \in DOMAIN result :
      EmbedScopesAt(k) =
        EmbedScopesOf(IF result[k].line \in ClosingMarkers
                        THEN OpenEmbeds(DocLines, k)
                        ELSE OpenEmbeds(DocLines, k - 1))

(***************************************************************************)
(* The shape of the embed rules.                                           *)
(***************************************************************************)
\* the rule has an end pattern and no while pattern, and its interior is the
\* block consumer of the target, the Jig base patterns, the target's host
\* grammar
IsBeginEndWithBlock(rule, target) ==
  /\ "end" \in DOMAIN rule
  /\ "while" \notin DOMAIN rule
  /\ rule.patterns = <<[include |-> "#jig_block_" \o getScopeKey(target)],
                       [include |-> "source.jig"],
                       [include |-> target.hostLanguageScope]>>

\* the rule has a while pattern and no end pattern, and its interior is the
\* Jig base patterns, then the target's host grammar
IsBeginWhileNoBlock(rule, target) ==
  /\ "while" \in DOMAIN rule
  /\ "end" \notin DOMAIN rule
  /\ rule.patterns = <<[include |-> "source.jig"],
                       [include |-> target.hostLanguageScope]>>

\* the embed rule of a target in a repository, top-level or injected
EmbedRuleIn(repository, target, injected) ==
  repository["embed_tag_" \o getScopeKey(target) \o (IF injected THEN "_injected" ELSE "")]

\* C22: in every grammar a run of the tag-based revision has written, the
\* embed rule of each target, top-level or injected, has exactly one of an
\* end and a while pattern: it is begin/end with the block consumer first,
\* then the Jig base patterns, then the host grammar, if and only if the
\* target is non-greedy and the variant is not the injected one; otherwise it
\* is begin/while with the Jig base patterns, then the host grammar.
C22_EmbedRuleShape ==
  (pc = "done" /\ rev = "tag") =>
    \A l \in WrittenLanguages : \A k \in DOMAIN languages : \A injected \in BOOLEAN :
      LET target == languages[k]
          rule == EmbedRuleIn(genDir[GrammarFileName(l)].repository, target, injected)
      IN /\ ("end" \in DOMAIN rule) # ("while" \in DOMAIN rule)
         /\ IF ~target.hasGreedyContexts /\ ~injected
              THEN IsBeginEndWithBlock(rule, target)
              ELSE IsBeginWhileNoBlock(rule, target)

\* a grammar written for a registry with a greedy and a non-greedy target
C22_Witness ==
  /\ pc = "done"
  /\ rev = "tag"
  /\ \E l \in WrittenLanguages : \E i, j \in DOMAIN languages :
       /\ languages[i].hasGreedyContexts
       /\ ~languages[j].hasGreedyContexts
       /\ "end" \in DOMAIN EmbedRuleIn(genDir[GrammarFileName(l)].repository, languages[j], FALSE)
       /\ "while" \in DOMAIN EmbedRuleIn(genDir[GrammarFileName(l)].repository, languages[i], FALSE)
       /\ "while" \in DOMAIN EmbedRuleIn(genDir[GrammarFileName(l)].repository, languages[j], TRUE)

(***************************************************************************)
(* The grammar the block consumer of an embed rule delegates to.           *)
(***************************************************************************)
\* the block consumer the top-level embed rule of a target includes first, in
\* a repository
BlockConsumerOf(repository, target) ==
  LET inc == EmbedRuleIn(repository, target, FALSE).patterns[1].include
  IN repository[Mid(inc, 2, Len(inc))]

\* the grammars a block consumer delegates the interior of its blocks to: its
\* includes other than itself and the Jig base patterns
DelegatesOf(consumer) ==
  {consumer.patterns[k].include : k \in DOMAIN consumer.patterns}
    \ ({"source.jig"} \cup {inc \in IncludesIn(consumer.patterns) : StartsWith(inc, "#")})

\* the written grammars of hosts and the non-greedy targets of their embed
\* rules
HostsAndTargets ==
  {ht \in WrittenLanguages \X Range(languages) : ~ht[2].hasGreedyContexts}

\* C23 as stated: in the grammar of host language H, the block consumer
\* inside the top-level embed rule of a non-greedy target T delegates the
\* interior of the blocks it consumes to the host grammar of H.
C23_BlockDelegatesToHostOfGrammar ==
  (pc = "done" /\ rev = "tag") =>
    \A ht \in HostsAndTargets :
      DelegatesOf(BlockConsumerOf(genDir[GrammarFileName(ht[1])].repository, ht[2]))
        = {ht[1].hostLanguageScope}

\* C23 amended: in the grammar of host language H, the block consumer inside
\* the top-level embed rule of a non-greedy target T delegates the interior
\* of the blocks it consumes to the host grammar of T, the language of the
\* embedded region, whatever H is.
C23_BlockDelegatesToHostOfTarget ==
  (pc = "done" /\ rev = "tag") =>
    \A ht \in HostsAndTargets :
      DelegatesOf(BlockConsumerOf(genDir[GrammarFileName(ht[1])].repository, ht[2]))
        = {ht[2].hostLanguageScope}

\* a grammar written for a host whose host grammar is not that of a
\* non-greedy target
C23_Witness ==
  /\ pc = "done"
  /\ rev = "tag"
  /\ \E ht \in HostsAndTargets :
       /\ ht[1].hostLanguageScope # ht[2].hostLanguageScope
       /\ DelegatesOf(BlockConsumerOf(genDir[GrammarFileName(ht[1])].repository, ht[2]))
            = {ht[2].hostLanguageScope}

(***************************************************************************)
(* The begin patterns of the embed rules.                                  *)
(***************************************************************************)
TOP_ANCHOR == "^"
INJECTED_ANCHOR == "(^|\\G)"

\* the numbers of the capture groups a rule names, up to the ninth
CaptureGroups(rule) == {n \in 0..9 : ToString(n) \in DOMAIN rule.beginCaptures}

\* the injected rule opens on the pattern of the top-level rule but for the
\* anchor, and names the same capture groups one further
ShiftedByAnchor(top, inj) ==
  /\ StartsWith(top.begin, TOP_ANCHOR)
  /\ StartsWith(inj.begin, INJECTED_ANCHOR)
  /\ Mid(top.begin, Len(TOP_ANCHOR) + 1, Len(top.begin))
       = Mid(inj.begin, Len(INJECTED_ANCHOR) + 1, Len(inj.begin))
  /\ DOMAIN top.beginCaptures = {ToString(n) : n \in CaptureGroups(top)}
  /\ DOMAIN inj.beginCaptures = {ToString(n + 1) : n \in CaptureGroups(top)}
  /\ \A n \in CaptureGroups(top) :
       inj.beginCaptures[ToString(n + 1)] = top.beginCaptures[ToString(n)]

\* C24: the embed rule of a target opens on the same pattern in the grammar
\* of every host a run has written, and in each of them the injected variant
\* opens on that pattern with the anchor (^|\G) for ^ and every capture group
\* numbered one further.
C24_BeginPatternSharedAndShifted ==
  (pc = "done" /\ rev = "tag") =>
    \A k \in DOMAIN languages : \A h1 \in WrittenLanguages :
      LET repository == genDir[GrammarFileName(h1)].repository
      IN /\ \A h2 \in WrittenLanguages :
              EmbedRuleIn(genDir[GrammarFileName(h2)].repository, languages[k], FALSE).begin
                = EmbedRuleIn(repository, languages[k], FALSE).begin
         /\ ShiftedByAnchor(EmbedRuleIn(repository, languages[k], FALSE),
                            EmbedRuleIn(repository, languages[k], TRUE))

\* the grammars of two hosts written with the embed rules of a target
C24_Witness ==
  /\ pc = "done"
  /\ rev = "tag"
  /\ \E h1, h2 \in WrittenLanguages :
       /\ h1.id # h2.id
       /\ "3" \in DOMAIN EmbedRuleIn(genDir[GrammarFileName(h1)].repository, h2, TRUE).beginCaptures
       /\ "2" \in DOMAIN EmbedRuleIn(genDir[GrammarFileName(h2)].repository, h2, FALSE).beginCaptures

(***************************************************************************)
(* The piercing injection.                                                 *)
(***************************************************************************)
\* the selectors of the injections of a grammar that are not anchored at the
\* grammar's own scope
PiercingSelectors(g) == {sel \in DOMAIN g.injections : IndexOf(sel, g.scopeName) = 0}

\* the registered languages with greedy contexts
GreedyTargets == {t \in Range(languages) : t.hasGreedyContexts}

\* the patterns are the injected variant of the embed rule of every
\* registered language, in registry order, then the inlined Jig base patterns
CarriesInjectedRules(g, patterns) ==
  /\ Len(patterns) = Len(languages) + 1
  /\ \A k \in DOMAIN languages :
       /\ patterns[k].include = "#embed_tag_" \o getScopeKey(languages[k]) \o "_injected"
       /\ StartsWith(EmbedRuleIn(g.repository, languages[k], TRUE).begin, INJECTED_ANCHOR)
  /\ patterns[Len(patterns)].include = "#jig_embed_inner_patterns"
  /\ "source.jig" \notin IncludesIn(g.repository["jig_embed_inner_patterns"].patterns)

\* C25 as stated: a grammar written by a run has a second, piercing injection
\* if and only if a registered language has greedy contexts; its selector
\* applies inside the content scope of the embedded blocks of every such
\* language, and it carries the injected variants of all the embed rules, in
\* registry order, then the inlined Jig base patterns, which do not refer to
\* source.jig.
C25_PiercingInjection ==
  (pc = "done" /\ rev = "tag") =>
    \A l \in WrittenLanguages :
      LET g == genDir[GrammarFileName(l)]
      IN /\ PiercingSelectors(g) # {} <=> GreedyTargets # {}
         /\ Cardinality(PiercingSelectors(g)) <= 1
         /\ \A sel \in PiercingSelectors(g) :
              /\ \A t \in GreedyTargets :
                   SelectorMatches(sel, <<g.scopeName, ContentScopeOf(t)>>)
              /\ CarriesInjectedRules(g, g.injections[sel].patterns)

(***************************************************************************)
(* Fenced blocks of Jig.                                                   *)
(***************************************************************************)
\* the lines that hold a fence and white space only
BareFences == {line \in FenceLines : IsBareFence(line)}

\* the lines that open a fenced block of Jig: a fence and the name jig
FenceOpeners == {line \in FenceLines : OpeningFence(line) # "" /\ line \notin BareFences}

\* the first line from the k-th on that holds the fence the first line
\* opened with, the same character as many times; 0 when there is none
RECURSIVE MatchingFenceLine(_, _)
MatchingFenceLine(doc, k) ==
  IF k > Len(doc) THEN 0
  ELSE IF Trim(doc[k]) = OpeningFence(doc[1]) THEN k
  ELSE MatchingFenceLine(doc, k + 1)

\* the content scope of the fenced block of pure Jig
FencedContentScope == FencedGrammarFile.repository["fenced_jig"].patterns[1].contentName

OPEN_MARKER_HEAD == "\\{\\{--\\s*::\\s*"
OPEN_MARKER_TAIL == "\\s*::\\s*--\\}\\}"
CLOSE_MARKER_HEAD == "^\\s*\\{\\{--\\s*//\\s*"
CLOSE_MARKER_TAIL == "\\s*--\\}\\}"

\* the text of a pattern between the head and the tail of a marker
Between(re, head, tail) == Mid(re, Len(head) + 1, Len(re) - Len(tail))

\* the rule opens on the open marker and closes on the close marker of one
\* language, and delegates its content to the grammar of that scope
IsMarkerRuleOf(rule, lang, scope) ==
  /\ StartsWith(rule.begin, OPEN_MARKER_HEAD) /\ EndsWith(rule.begin, OPEN_MARKER_TAIL)
  /\ StartsWith(rule.end, CLOSE_MARKER_HEAD) /\ EndsWith(rule.end, CLOSE_MARKER_TAIL)
  /\ Between(rule.begin, OPEN_MARKER_HEAD, OPEN_MARKER_TAIL)
       = Between(rule.end, CLOSE_MARKER_HEAD, CLOSE_MARKER_TAIL)
  /\ Between(rule.begin, OPEN_MARKER_HEAD, OPEN_MARKER_TAIL) = buildLanguageAlternation(lang)
  /\ rule.patterns = <<[include |-> scope]>>

\* the scope names of the per-language grammars the run has written
WrittenScopes == {genDir[GrammarFileName(l)].scopeName : l \in WrittenLanguages}

OpenBlocks == SelectSeq(ruleStack, LAMBDA frame : StartsWith(frame.ref, "jig_block"))

\* the counter model: the k-th line is inside the embed the first line opens
CounterInside(k) == 1 < k /\ NestingDepth(SubSeq(DocLines, 2, k)) >= 0

\* the rule-stack model: the k-th line is tokenized inside the embed the first
\* line opens
StackInside(k) ==
  1 < k /\ loadGrammar(tokScopeName).repository[result[1].rule].contentName
             \in Range(result[k].scopes)

\* C28 as stated: inside a top-level embed of a non-greedy target the rule
\* stack follows a depth counter that a tag(args) line raises by one and a
\* closing marker lowers by one: as long as the counter has not passed the
\* closing marker at depth zero the embed is open with as many block
\* consumers above it as the counter tells, after it the stack is empty, and
\* the two models agree on the lines that are inside the embed.
C28_BlockConsumersCountDepth ==
  NonGreedyEmbedWithBlocks =>
    LET d == NestingDepth(Tail(DocLines))
    IN /\ \A k \in DOMAIN result : StackInside(k) <=> CounterInside(k)
       /\ d >= 0 => (ruleStack # <<>> /\ ruleStack[1].ref = result[1].rule
                     /\ Len(OpenBlocks) = d /\ Len(ruleStack) = d + 1)
       /\ d = -1 => ruleStack = <<>>

(***************************************************************************)
(* The manifest and the artifact directory after a run.                    *)
(***************************************************************************)
GENERATED_PATH == "./syntaxes/generated/"

\* the grammar entries of a manifest whose path lies in syntaxes/generated
GeneratedPathEntries(packageJson) ==
  {g \in Range(packageJson.grammars) : Has(g, "path") /\ StartsWith(g.path, GENERATED_PATH)}

\* the name of the file in syntaxes/generated an entry refers to
FileOfEntry(g) == Mid(g.path, Len(GENERATED_PATH) + 1, Len(g.path))

\* the grammar entries the reconciliation of the current run generates: the
\* ones it writes into a manifest that holds none
GeneratedEntries ==
  Range(Reconciled(rev, [languages |-> <<>>, grammars |-> <<>>], languages).grammars)

\* C29: after a successful run every generated grammar entry of the manifest
\* whose path lies in syntaxes/generated refers to a file the run wrote and the directory
\* still holds, with the content of the grammar of the entry's scope; once the
\* stale files are cleaned the directory holds every file the run wrote.
C29_ManifestRefersToWrittenFiles ==
  /\ pc = "done" =>
       \A g \in GeneratedPathEntries(pkg.value) \cap GeneratedEntries :
         /\ FileOfEntry(g) \in generatedFiles
         /\ FileOfEntry(g) \in DOMAIN genDir
         /\ genDir[FileOfEntry(g)].scopeName = g.scopeName
  /\ pc \in {"pkg", "done", "failed"} /\ generatedFiles # {}
       => generatedFiles \subseteq DOMAIN genDir

\* a successful run over a registry of two languages, in a directory that held
\* a stale grammar: the manifest names the files of both languages and the
\* cleanup has removed the stale one
C29_Witness ==
  /\ pc = "done"
  /\ "jig-go.tmLanguage.json" \in DOMAIN genDir0
  /\ "jig-go.tmLanguage.json" \notin DOMAIN genDir
  /\ Cardinality(GeneratedPathEntries(pkg.value) \cap GeneratedEntries) >= 3
  /\ Cardinality(WrittenLanguages) = 2

(***************************************************************************)
(* The names derived from the ids of the registry.                         *)
(***************************************************************************)
\* the names main and the generators derive from a language: the key of its
\* repository rules, the content scopes of its embed rule and of its fenced
\* rule, the scope name of its grammar and the name of its grammar file
DerivedNames(lang) ==
  [key |-> getScopeKey(lang),
   contentScope |-> "meta.embedded.block." \o getShortName(lang),
   fencedScope |-> "meta.embedded.block.jig-" \o getShortName(lang),
   scopeName |-> IF rev = "tag" THEN getPerLanguageScopeName(lang)
                 ELSE getPerLanguageScopeNameV2(lang),
   fileName |-> GrammarFileName(lang)]

\* the keys of a repository that start with a prefix
KeysWith(repository, prefix) == {k \in DOMAIN repository : StartsWith(k, prefix)}

\* C30 as stated: after a run on a registry of pairwise distinct ids, two
\* languages of the registry differ in every name derived from them, and no
\* rule or file of one has been overwritten by another's: the fenced grammar
\* holds a rule for each language besides the rule of pure Jig, each grammar
\* of the tag-based revision holds the two embed rules (top-level and injected)
\* of each language, and the run has written a grammar file for each language
\* it generates one for.
C30_DistinctIdsGiveDistinctNames ==
  (pc = "done" /\ \A i, j \in DOMAIN languages : languages[i].id = languages[j].id => i = j) =>
    /\ \A i, j \in DOMAIN languages :
         i # j => \A field \in DOMAIN DerivedNames(languages[i]) :
                    DerivedNames(languages[i])[field] # DerivedNames(languages[j])[field]
    /\ Cardinality(DOMAIN genDir[FencedFileName].repository) = Len(languages) + 1
    /\ Cardinality({GrammarFileName(l) : l \in Range(LoopLanguages(rev, languages))}
                     \cap generatedFiles)
         = Len(LoopLanguages(rev, languages))
    /\ rev = "tag" =>
         \A l \in WrittenLanguages :
           Cardinality(KeysWith(genDir[GrammarFileName(l)].repository, "embed_tag_"))
             = 2 * Len(languages)
====
